---- MODULE Spec2Model ----
(***************************************************************************)
(* State-machine model of the WSLCB licensing tracker: the record store,   *)
(* the unified ingestion pipeline, endorsement resolution, the             *)
(* application/outcome linker, the live scraper, the archive replay jobs   *)
(* and the rebuild from sources.                                           *)
(*                                                                         *)
(* Text values whose characters the code inspects (names, addresses,       *)
(* license types) are sequences of one-character strings; the token "NBSP" *)
(* stands for the non-breaking space U+00A0.  Dates are day numbers.       *)
(* Row ids are positive integers; NoId stands for SQL NULL / Python None.  *)
(***************************************************************************)
EXTENDS Integers, Sequences, FiniteSets, TLC

VARIABLES
  db,     \* the store as the writer connection sees it (uncommitted work included)
  disk,   \* the committed store, as every other connection sees it
  last,   \* observation of the most recent pipeline call (result, steps attempted)
  job,    \* control state of the running job (replay position, scrape phase, ...)
  fs,     \* files of the snapshot archive written by the scraper
  rb      \* control state of the rebuild-and-compare run

vars == <<db, disk, last, job, fs, rb>>

NoId == 0

(***************************************************************************)
(* Text helpers                                                            *)
(***************************************************************************)
WS == {" ", "NBSP"}

LowerCase == <<"a","b","c","d","e","f","g","h","i","j","k","l","m",
               "n","o","p","q","r","s","t","u","v","w","x","y","z">>
UpperCase == <<"A","B","C","D","E","F","G","H","I","J","K","L","M",
               "N","O","P","Q","R","S","T","U","V","W","X","Y","Z">>
Digits == {"0","1","2","3","4","5","6","7","8","9"}

upper(s) ==
  [i \in 1..Len(s) |->
     IF \E k \in 1..26 : LowerCase[k] = s[i]
     THEN UpperCase[CHOOSE k \in 1..26 : LowerCase[k] = s[i]]
     ELSE s[i]]

RECURSIVE lstrip(_)
lstrip(s) == IF s # <<>> /\ Head(s) \in WS THEN lstrip(Tail(s)) ELSE s

RECURSIVE rstrip(_)
rstrip(s) ==
  IF s # <<>> /\ s[Len(s)] \in WS THEN rstrip(SubSeq(s, 1, Len(s) - 1)) ELSE s

strip(s) == lstrip(rstrip(s))

\* re.sub(r'\s+', ' ', s)
RECURSIVE collapse_ws(_)
collapse_ws(s) ==
  IF s = <<>> THEN <<>>
  ELSE IF Head(s) \in WS
       THEN <<" ">> \o collapse_ws(lstrip(s))
       ELSE <<Head(s)>> \o collapse_ws(Tail(s))

\* s.split(sep) for a one-character separator: always at least one part
RECURSIVE split(_, _)
split(s, sep) ==
  IF \A i \in 1..Len(s) : s[i] # sep THEN <<s>>
  ELSE LET k == CHOOSE i \in 1..Len(s) :
                  s[i] = sep /\ \A j \in 1..(i - 1) : s[j] # sep
       IN  <<SubSeq(s, 1, k - 1)>> \o split(SubSeq(s, k + 1, Len(s)), sep)

RECURSIVE join(_, _)
join(parts, sep) ==
  IF parts = <<>> THEN <<>>
  ELSE IF Len(parts) = 1 THEN parts[1]
  ELSE parts[1] \o sep \o join(Tail(parts), sep)

EndsWith(s, t) ==
  Len(s) >= Len(t) /\ SubSeq(s, Len(s) - Len(t) + 1, Len(s)) = t

(***************************************************************************)
(* The store                                                               *)
(***************************************************************************)
EmptySeq ==
  [license_records |-> 0, locations |-> 0, entities |-> 0,
   license_endorsements |-> 0, sources |-> 0, scrape_log |-> 0]

\* the tables created by the baseline migration, all empty
EmptyDb ==
  [license_records      |-> {},
   locations            |-> {},
   entities             |-> {},
   record_entities      |-> {},
   license_endorsements |-> {},
   endorsement_codes    |-> {},
   record_endorsements  |-> {},
   sources              |-> {},
   record_sources       |-> {},
   record_links         |-> {},
   record_enrichments   |-> {},
   scrape_log           |-> {},
   seq                  |-> EmptySeq]

\* SQL NULL in a text column
SqlNull == <<"NULL">>

\* AUTOINCREMENT: the next id of a table is one more than any id it ever gave
NextId(d, table) == d.seq[table] + 1

\* a key that also tells captures apart
NaturalKey_with_scraped_at(r) ==
  <<r.section_type, r.record_date, r.license_number, r.application_type, r.scraped_at>>

\* the four columns of UNIQUE(section_type, record_date, license_number, application_type)
NaturalKey(r) ==
  <<r.section_type, r.record_date, r.license_number, r.application_type>>

\* DELETE FROM license_records WHERE id IN ids, with the ON DELETE CASCADE children
delete_records(d, ids) ==
  [d EXCEPT
     !.license_records     = {r \in @ : r.id \notin ids},
     !.record_entities     = {x \in @ : x.record_id \notin ids},
     !.record_endorsements = {x \in @ : x.record_id \notin ids},
     !.record_sources      = {x \in @ : x.record_id \notin ids},
     !.record_enrichments  = {x \in @ : x.record_id \notin ids},
     !.record_links        = {x \in @ : x.new_app_id \notin ids /\ x.outcome_id \notin ids}]

(***************************************************************************)
(* Locations                                                               *)
(***************************************************************************)
\* re.sub(r'\xa0+', ' ', raw)
RECURSIVE normalize_raw_address(_)
normalize_raw_address(raw) ==
  IF raw = <<>> THEN <<>>
  ELSE IF Head(raw) = "NBSP"
       THEN LET rest == CHOOSE t \in {SubSeq(raw, k, Len(raw)) : k \in 2..(Len(raw) + 1)} :
                          /\ (t = <<>> \/ Head(t) # "NBSP")
                          /\ \A j \in 1..(Len(raw) - Len(t)) : raw[j] = "NBSP"
            IN  <<" ">> \o normalize_raw_address(rest)
       ELSE <<Head(raw)>> \o normalize_raw_address(Tail(raw))

\* returns the store and the location id (NoId for an empty address)
get_or_create_location(d, raw_address) ==
  IF strip(raw_address) = <<>> THEN [db |-> d, id |-> NoId]
  ELSE LET normalized == normalize_raw_address(raw_address)
           found == {l \in d.locations : l.raw_address = normalized}
       IN  IF found # {}
           THEN [db |-> d, id |-> (CHOOSE l \in found : TRUE).id]
           ELSE LET id == NextId(d, "locations")
                IN  [db |-> [d EXCEPT
                               !.locations = @ \cup {[id |-> id, raw_address |-> normalized]},
                               !.seq.locations = id],
                     id |-> id]

(***************************************************************************)
(* Entities                                                                *)
(***************************************************************************)
LegitSuffixes ==
  { <<"I","N","C">>, <<"L","L","C">>, <<"L",".","L",".","C">>,
    <<"L",".","L",".","P">>, <<"L","T","D">>, <<"C","O","R","P">>,
    <<"C","O">>, <<"L",".","P">>, <<"P","T","Y">>, <<"J","R">>, <<"S","R">>,
    <<"S",".","P",".","A">>, <<"F",".","O",".","E">>, <<"U",".","P">>,
    <<"D",".","B",".","A">>, <<"P",".","C">>, <<"N",".","A">>, <<"P",".","A">>,
    <<"W","."," ","&"," ","S">> }

\* _LEGIT_TRAILING_DOT.search(s): a listed suffix at the start of the text or
\* after whitespace, then a period, then only whitespace up to the end
legit_trailing_dot(s) ==
  LET t == rstrip(s) IN
  \E suf \in LegitSuffixes :
     /\ EndsWith(t, suf \o <<".">>)
     /\ \/ Len(t) = Len(suf) + 1
        \/ t[Len(t) - Len(suf) - 1] \in WS

\* one trailing period or comma removed, the whitespace before it kept
strip_one_trailing_punct(cleaned) ==
  IF cleaned # <<>> /\ cleaned[Len(cleaned)] \in {".", ","} /\ ~legit_trailing_dot(cleaned)
  THEN SubSeq(cleaned, 1, Len(cleaned) - 1)
  ELSE cleaned

RECURSIVE strip_trailing_punct(_)
strip_trailing_punct(cleaned) ==
  IF cleaned # <<>> /\ cleaned[Len(cleaned)] \in {".", ","} /\ ~legit_trailing_dot(cleaned)
  THEN strip_trailing_punct(rstrip(SubSeq(cleaned, 1, Len(cleaned) - 1)))
  ELSE cleaned

clean_entity_name(name) == strip_trailing_punct(collapse_ws(upper(strip(name))))

clean_applicants_string(applicants) ==
  IF applicants = <<>> THEN applicants
  ELSE LET raw == split(applicants, ";")
           parts == [i \in 1..Len(raw) |-> clean_entity_name(raw[i])]
       IN  join(SelectSeq(parts, LAMBDA p : p # <<>>), <<";", " ">>)

\* returns the store and the entity id; NoId when the cleaned name is empty
\* (the ValueError the caller skips)
get_or_create_entity(d, name) ==
  LET normalized == clean_entity_name(name)
      found == {e \in d.entities : e.name = normalized}
  IN  IF normalized = <<>> THEN [db |-> d, id |-> NoId]
      ELSE IF found # {} THEN [db |-> d, id |-> (CHOOSE e \in found : TRUE).id]
      ELSE LET id == NextId(d, "entities")
           IN  [db |-> [d EXCEPT !.entities = @ \cup {[id |-> id, name |-> normalized]},
                                 !.seq.entities = id],
                id |-> id]

\* the loop of parse_and_link_entities over the remaining names
RECURSIVE link_entity_names(_, _, _, _, _)
link_entity_names(d, record_id, names, role, linked) ==
  IF names = <<>> THEN d
  ELSE LET e == get_or_create_entity(d, Head(names))
           dup == \E x \in e.db.record_entities :
                     x.record_id = record_id /\ x.entity_id = e.id /\ x.role = role
       IN  IF e.id = NoId
           THEN link_entity_names(d, record_id, Tail(names), role, linked)
           ELSE IF dup
           THEN link_entity_names(e.db, record_id, Tail(names), role, linked)
           ELSE link_entity_names(
                  [e.db EXCEPT !.record_entities = @ \cup
                     {[record_id |-> record_id, entity_id |-> e.id,
                       role |-> role, position |-> linked]}],
                  record_id, Tail(names), role, linked + 1)

parse_and_link_entities(d, record_id, applicants_str, role) ==
  IF \A i \in 1..Len(applicants_str) : applicants_str[i] # ";" THEN d
  ELSE LET raw == split(applicants_str, ";")
           parts == [i \in 1..Len(raw) |-> strip(raw[i])]
           entity_names == SelectSeq(Tail(parts), LAMBDA p : p # <<>>)
       IN  link_entity_names(d, record_id, entity_names, role, 0)

(***************************************************************************)
(* insert_record: duplicate check, locations, name cleaning, the row, and  *)
(* the entity links                                                        *)
(***************************************************************************)
\* the INSERT and the entity links, once both locations are resolved
insert_row(d, record, location_id, previous_location_id, applicants, prev_applicants) ==
  IF \E r \in d.license_records : NaturalKey(r) = NaturalKey(record)
  THEN \* sqlite3.IntegrityError: the locations stay, the row is not stored
       [db |-> d, ok |-> FALSE, is_new |-> FALSE, id |-> NoId]
  ELSE [db |->
          (IF prev_applicants # <<>>
           THEN parse_and_link_entities(
                  parse_and_link_entities(
                    [d EXCEPT
                       !.license_records = @ \cup
                         {[id |-> NextId(d, "license_records"),
                           section_type |-> record.section_type,
                           record_date |-> record.record_date,
                           license_number |-> record.license_number,
                           application_type |-> record.application_type,
                           license_type |-> record.license_type,
                           business_name |-> clean_entity_name(record.business_name),
                           applicants |-> applicants,
                           previous_business_name |->
                             clean_entity_name(record.previous_business_name),
                           previous_applicants |-> prev_applicants,
                           location_id |-> location_id,
                           previous_location_id |-> previous_location_id,
                           scraped_at |-> record.scraped_at,
                           raw_business_name |-> SqlNull,
                           raw_previous_business_name |-> SqlNull,
                           raw_applicants |-> SqlNull,
                           raw_previous_applicants |-> SqlNull]},
                       !.seq.license_records = @ + 1],
                    NextId(d, "license_records"), applicants, "applicant"),
                  NextId(d, "license_records"), prev_applicants, "previous_applicant")
           ELSE parse_and_link_entities(
                  [d EXCEPT
                     !.license_records = @ \cup
                       {[id |-> NextId(d, "license_records"),
                         section_type |-> record.section_type,
                         record_date |-> record.record_date,
                         license_number |-> record.license_number,
                         application_type |-> record.application_type,
                         license_type |-> record.license_type,
                         business_name |-> clean_entity_name(record.business_name),
                         applicants |-> applicants,
                         previous_business_name |->
                           clean_entity_name(record.previous_business_name),
                         previous_applicants |-> prev_applicants,
                         location_id |-> location_id,
                         previous_location_id |-> previous_location_id,
                         scraped_at |-> record.scraped_at,
                         raw_business_name |-> SqlNull,
                         raw_previous_business_name |-> SqlNull,
                         raw_applicants |-> SqlNull,
                         raw_previous_applicants |-> SqlNull]},
                     !.seq.license_records = @ + 1],
                  NextId(d, "license_records"), applicants, "applicant")),
        ok |-> TRUE, is_new |-> TRUE, id |-> NextId(d, "license_records")]

\* the second location, then the row; loc is the outcome of the first lookup
insert_located(loc, ploc, record) ==
  insert_row(ploc.db, record, loc.id, ploc.id,
             clean_applicants_string(record.applicants),
             clean_applicants_string(record.previous_applicants))

insert_new(loc, record) ==
  insert_located(loc, get_or_create_location(loc.db, record.previous_business_location),
                 record)

\* insert_record without its duplicate check before the locations
insert_record_no_precheck(d, record) ==
  insert_new(get_or_create_location(d, record.business_location), record)

insert_record(d, record) ==
  LET existing == {r \in d.license_records : NaturalKey(r) = NaturalKey(record)} IN
  IF existing # {}
  THEN [db |-> d, ok |-> TRUE, is_new |-> FALSE,
        id |-> (CHOOSE r \in existing : \A q \in existing : r.id <= q.id).id]
  ELSE insert_new(get_or_create_location(d, record.business_location), record)

(***************************************************************************)
(* Endorsements                                                            *)
(***************************************************************************)
\* excerpt of SEED_CODE_MAP: the seeded codes and their endorsement names
SEED_CODE_MAP == { [code |-> <<"7">>, names |-> <<(<<"A">>)>>] }

isdigit(s) == s # <<>> /\ \A i \in 1..Len(s) : s[i] \in Digits

RECURSIVE rstrip_commas(_)
rstrip_commas(s) ==
  IF s # <<>> /\ s[Len(s)] = "," THEN rstrip_commas(SubSeq(s, 1, Len(s) - 1)) ELSE s

\* the text before the first comma, <<>> when there is no comma:
\* SUBSTR(x, 1, INSTR(x, ',') - 1)
before_comma(s) ==
  IF \A i \in 1..Len(s) : s[i] # "," THEN <<>>
  ELSE SubSeq(s, 1, (CHOOSE i \in 1..Len(s) :
                       s[i] = "," /\ \A j \in 1..(i - 1) : s[j] # ",") - 1)

\* _CODE_NAME_RE = ^(\d+),\s+(.+)$ : ok, group(1), group(2)
code_name_re(s) ==
  LET code == before_comma(s)
      rest == SubSeq(s, Len(code) + 2, Len(s))
      body == lstrip(rest)
  IN  IF ~isdigit(code) \/ rest = <<>> \/ Head(rest) \notin WS
        THEN [ok |-> FALSE, code |-> <<>>, name |-> <<>>]
      ELSE IF body # <<>>
        THEN [ok |-> TRUE, code |-> code, name |-> body]
      ELSE IF Len(rest) >= 2
        THEN [ok |-> TRUE, code |-> code, name |-> <<rest[Len(rest)]>>]
      ELSE [ok |-> FALSE, code |-> <<>>, name |-> <<>>]

\* name GLOB '[0-9]*, *'
glob_code_name(name) ==
  /\ name # <<>> /\ Head(name) \in Digits
  /\ \E i \in 2..(Len(name) - 1) : name[i] = "," /\ name[i + 1] = " "

\* an INSERT without the lookup of the existing name
create_endorsement(d, raw_name) ==
  [db |-> [d EXCEPT
             !.license_endorsements = @ \cup
                {[id |-> NextId(d, "license_endorsements"), name |-> upper(raw_name)]},
             !.seq.license_endorsements = @ + 1],
   id |-> NextId(d, "license_endorsements")]

ensure_endorsement(d, raw_name) ==
  LET name == upper(raw_name)
      found == {e \in d.license_endorsements : e.name = name}
  IN  IF found # {} THEN [db |-> d, id |-> (CHOOSE e \in found : TRUE).id]
      ELSE LET id == NextId(d, "license_endorsements")
           IN  [db |-> [d EXCEPT
                          !.license_endorsements = @ \cup {[id |-> id, name |-> name]},
                          !.seq.license_endorsements = id],
                id |-> id]

\* INSERT OR IGNORE INTO endorsement_codes (code, endorsement_id)
map_code(d, code, eid) ==
  [d EXCEPT !.endorsement_codes = @ \cup {[code |-> code, endorsement_id |-> eid]}]

link_endorsement(d, record_id, endorsement_id) ==
  [d EXCEPT !.record_endorsements =
     @ \cup {[record_id |-> record_id, endorsement_id |-> endorsement_id]}]

\* link every record of the endorsement `from` to every endorsement in `targets`
migrate_links(d, from, targets) ==
  [d EXCEPT !.record_endorsements = @ \cup
     {[record_id |-> x.record_id, endorsement_id |-> t] :
        x \in {y \in d.record_endorsements : y.endorsement_id = from}, t \in targets}]

\* the three DELETEs that remove an endorsement, its links and its mappings
delete_endorsement(d, eid) ==
  [d EXCEPT !.record_endorsements  = {x \in @ : x.endorsement_id # eid},
            !.endorsement_codes    = {x \in @ : x.endorsement_id # eid},
            !.license_endorsements = {x \in @ : x.id # eid}]

EndorsementName(d, eid) == (CHOOSE e \in d.license_endorsements : e.id = eid).name

\* ids of the endorsements the code maps to whose name is not `except`
mapped_eids(d, code, except) ==
  {m.endorsement_id : m \in {x \in d.endorsement_codes :
      x.code = code /\ EndorsementName(d, x.endorsement_id) # except}}

\* one placeholder of _merge_seeded_placeholders
merge_one_seeded(d, p) ==
  LET real_eids == mapped_eids(d, p.name, p.name) IN
  IF real_eids = {} THEN d
  ELSE delete_endorsement(migrate_links(d, p.id, real_eids), p.id)

RECURSIVE merge_seeded_loop(_, _)
merge_seeded_loop(d, todo) ==
  IF todo = {} THEN d
  ELSE LET p == CHOOSE x \in todo : \A y \in todo : x.id <= y.id
       IN  merge_seeded_loop(merge_one_seeded(d, p), todo \ {p})

\* returns the store and the number of record links migrated
merge_seeded_placeholders(d) ==
  LET placeholders ==
        {le \in d.license_endorsements :
           /\ [code |-> le.name, endorsement_id |-> le.id] \in d.endorsement_codes
           /\ isdigit(le.name)
           /\ mapped_eids(d, le.name, le.name) # {}}
      migrated == Cardinality({x \in d.record_endorsements :
                     \E p \in placeholders : p.id = x.endorsement_id})
  IN  [db |-> merge_seeded_loop(d, placeholders), migrated |-> migrated]

RECURSIVE seed_names(_, _, _)
seed_names(d, code, names) ==
  IF names = <<>> THEN d
  ELSE LET e == ensure_endorsement(d, Head(names))
       IN  seed_names(map_code(e.db, code, e.id), code, Tail(names))

RECURSIVE seed_loop(_, _)
seed_loop(d, todo) ==
  IF todo = {} THEN d
  ELSE LET s == CHOOSE x \in todo : TRUE
       IN  seed_loop(seed_names(d, s.code, s.names), todo \ {s})

\* conn is the pair [db, disk]; commit copies db to disk
commit(conn) == [db |-> conn.db, disk |-> conn.db]

seed_endorsements(conn) ==
  LET seeded == commit([conn EXCEPT !.db = seed_loop(conn.db, SEED_CODE_MAP)])
      merged == merge_seeded_placeholders(seeded.db)
      after  == [seeded EXCEPT !.db = merged.db]
  IN  IF merged.migrated > 0 THEN commit(after) ELSE after

process_code(d, record_id, code, fallback_name) ==
  LET rows == {m.endorsement_id : m \in {x \in d.endorsement_codes : x.code = code}} IN
  IF rows # {}
  THEN [d EXCEPT !.record_endorsements = @ \cup
          {[record_id |-> record_id, endorsement_id |-> e] : e \in rows}]
  ELSE LET e == ensure_endorsement(d, IF fallback_name # <<>> THEN fallback_name ELSE code)
       IN  link_endorsement(map_code(e.db, code, e.id), record_id, e.id)

RECURSIVE link_text_names(_, _, _)
link_text_names(d, record_id, parts) ==
  IF parts = <<>> THEN d
  ELSE IF strip(Head(parts)) = <<>> THEN link_text_names(d, record_id, Tail(parts))
  ELSE LET e == ensure_endorsement(d, strip(Head(parts)))
       IN  link_text_names(link_endorsement(e.db, record_id, e.id), record_id, Tail(parts))

process_record(d, record_id, raw_license_type) ==
  LET cleaned == strip(rstrip_commas(raw_license_type))
      m == code_name_re(cleaned)
  IN  IF raw_license_type = <<>> THEN d
      ELSE IF isdigit(cleaned) THEN process_code(d, record_id, cleaned, <<>>)
      ELSE IF m.ok THEN process_code(d, record_id, m.code, strip(m.name))
      ELSE link_text_names(d, record_id, split(raw_license_type, ";"))

\* DELETE FROM endorsement_codes WHERE code LIKE '% %'
cleanup_space_codes(d) ==
  [d EXCEPT !.endorsement_codes =
     {x \in @ : \A i \in 1..Len(x.code) : x.code[i] # " "}]

\* one "CODE, NAME" endorsement b of repair_code_name_endorsements
repair_one_code_name(d, b) ==
  LET m      == code_name_re(b.name)
      mapped == mapped_eids(d, m.code, b.name)
      e      == ensure_endorsement(d, strip(m.name))
      d1     == IF mapped # {} THEN d ELSE map_code(e.db, m.code, e.id)
      target == IF mapped # {} THEN mapped ELSE {e.id}
  IN  IF ~m.ok THEN d
      ELSE delete_endorsement(migrate_links(d1, b.id, target), b.id)

RECURSIVE repair_code_name_loop(_, _)
repair_code_name_loop(d, todo) ==
  IF todo = {} THEN d
  ELSE LET b == CHOOSE x \in todo : \A y \in todo : x.id <= y.id
       IN  repair_code_name_loop(repair_one_code_name(d, b), todo \ {b})

repair_code_name_endorsements(conn) ==
  LET d == conn.db
      bogus == {e \in d.license_endorsements : glob_code_name(e.name)}
      migrated == Cardinality({x \in d.record_endorsements :
                     \E b \in bogus : b.id = x.endorsement_id /\ code_name_re(b.name).ok})
      repaired == cleanup_space_codes(repair_code_name_loop(d, bogus))
      cleaned  == cleanup_space_codes(d)
  IN  IF bogus = {}
      THEN IF cleaned # d THEN commit([conn EXCEPT !.db = cleaned]) ELSE conn
      ELSE IF migrated > 0 THEN commit([conn EXCEPT !.db = repaired])
      ELSE [conn EXCEPT !.db = repaired]

OutcomeSections == {"approved", "discontinued"}

\* the codes of the approved/discontinued records (license_type GLOB '[0-9]*')
all_codes(d) ==
  LET raws == {strip(rstrip_commas(r.license_type)) :
                 r \in {x \in d.license_records :
                          /\ x.section_type \in OutcomeSections
                          /\ x.license_type # <<>>
                          /\ Head(x.license_type) \in Digits}}
  IN  {code_name_re(raw).code : raw \in {x \in raws : code_name_re(x).ok}}
      \cup {raw \in raws : ~code_name_re(raw).ok /\ isdigit(raw)}

RECURSIVE count_in(_, _)
count_in(parts, key) ==
  IF parts = <<>> THEN 0
  ELSE (IF strip(Head(parts)) = key THEN 1 ELSE 0) + count_in(Tail(parts), key)

RECURSIVE sum_over(_, _)
sum_over(pairs, key) ==
  IF pairs = {} THEN 0
  ELSE LET p == CHOOSE x \in pairs : TRUE
       IN  count_in(split(p[2].license_type, ";"), key) + sum_over(pairs \ {p}, key)

\* the names present in any new_application record that shares a license
\* number with an outcome record of this code
always_names_any(d, code) ==
  LET apps == {n \in d.license_records :
                 /\ n.section_type = "new_application"
                 /\ \E a \in d.license_records :
                      /\ a.section_type \in OutcomeSections
                      /\ before_comma(a.license_type) = code
                      /\ a.license_number = n.license_number}
  IN  UNION {{strip(split(n.license_type, ";")[i]) :
                i \in 1..Len(split(n.license_type, ";"))} : n \in apps} \ {<<>>}

\* the names present in every new_application record that shares a license
\* number with an outcome record of this code
always_names(d, code) ==
  LET pairs == {<<a, n>> \in d.license_records \X d.license_records :
                  /\ a.section_type \in OutcomeSections
                  /\ before_comma(a.license_type) = code
                  /\ n.section_type = "new_application"
                  /\ n.license_number = a.license_number}
      keys == UNION {{strip(split(p[2].license_type, ";")[i]) :
                        i \in 1..Len(split(p[2].license_type, ";"))} : p \in pairs}
  IN  {t \in keys : t # <<>> /\ sum_over(pairs, t) = Cardinality(pairs)}

RECURSIVE learn_names(_, _, _)
learn_names(d, code, names) ==
  IF names = {} THEN d
  ELSE LET name == CHOOSE x \in names : TRUE
           e == ensure_endorsement(d, name)
       IN  learn_names(map_code(e.db, code, e.id), code, names \ {name})

RECURSIVE learn_loop(_, _)
learn_loop(d, codes) ==
  IF codes = {} THEN d
  ELSE LET code == CHOOSE x \in codes : TRUE
       IN  learn_loop(learn_names(d, code, always_names(d, code)), codes \ {code})

\* a merge that leaves the placeholder and its links in place
merge_one_placeholder_skipped(d, code, names) == d

\* one learned code of _merge_placeholders
merge_one_placeholder(d, code, names) ==
  LET placeholder == {e \in d.license_endorsements : e.name = code}
      pid == (CHOOSE e \in placeholder : TRUE).id
      eids == {e.id : e \in {x \in d.license_endorsements :
                               \E name \in names : x.name = upper(name)}}
  IN  IF placeholder = {} THEN d
      ELSE delete_endorsement(migrate_links(d, pid, eids), pid)

RECURSIVE merge_placeholders(_, _)
merge_placeholders(d, learned) ==
  IF learned = {} THEN d
  ELSE LET l == CHOOSE x \in learned : TRUE
       IN  merge_placeholders(merge_one_placeholder(d, l.code, l.names), learned \ {l})

discover_code_mappings(conn) ==
  LET d == conn.db
      mapped == {m.code : m \in {x \in d.endorsement_codes :
                                   EndorsementName(d, x.endorsement_id) # x.code}}
      unmapped == all_codes(d) \ mapped
      learned == {[code |-> c, names |-> always_names(d, c)] :
                    c \in {x \in unmapped : always_names(d, x) # {}}}
      merged == merge_placeholders(learn_loop(d, unmapped), learned)
  IN  IF learned = {} THEN conn ELSE commit([conn EXCEPT !.db = merged])

(***************************************************************************)
(* Application/outcome links                                               *)
(***************************************************************************)
DATE_TOLERANCE_DAYS == 7

_APPROVAL_LINK_TYPES ==
  {"RENEWAL", "NEW APPLICATION", "ASSUMPTION", "ADDED/CHANGE OF CLASS",
   "CHANGE OF CORPORATE OFFICER", "CHANGE OF LOCATION", "RESUME BUSINESS", "IN LIEU"}

_DISC_LINK_TYPE == "DISC. LIQUOR SALES"

\* a forward query without the date condition
best_outcome_no_tolerance(d, section, out_type, lic_num, new_date) ==
  LET cand == {o \in d.license_records :
                 /\ o.section_type = section
                 /\ o.license_number = lic_num
                 /\ o.application_type = out_type}
  IN  IF cand = {} THEN NoId
      ELSE (CHOOSE o \in cand : \A p \in cand :
              o.record_date < p.record_date
              \/ (o.record_date = p.record_date /\ o.id <= p.id)).id

\* forward query: the earliest outcome of the given section and type for the
\* license, dated no earlier than the tolerance before the application
best_outcome(d, section, out_type, lic_num, new_date) ==
  LET cand == {o \in d.license_records :
                 /\ o.section_type = section
                 /\ o.license_number = lic_num
                 /\ o.application_type = out_type
                 /\ o.record_date >= new_date - DATE_TOLERANCE_DAYS}
  IN  IF cand = {} THEN NoId
      ELSE (CHOOSE o \in cand : \A p \in cand :
              o.record_date < p.record_date
              \/ (o.record_date = p.record_date /\ o.id <= p.id)).id

\* a backward query ordered by ascending date: the earliest application
best_new_app_earliest(d, app_type, lic_num, out_date) ==
  LET cand == {n \in d.license_records :
                 /\ n.section_type = "new_application"
                 /\ n.license_number = lic_num
                 /\ n.application_type = app_type
                 /\ n.record_date <= out_date + DATE_TOLERANCE_DAYS}
  IN  IF cand = {} THEN NoId
      ELSE (CHOOSE n \in cand : \A p \in cand :
              n.record_date < p.record_date
              \/ (n.record_date = p.record_date /\ n.id <= p.id)).id

\* backward query: the latest application of the type for the license, dated
\* no later than the tolerance after the outcome
best_new_app(d, app_type, lic_num, out_date) ==
  LET cand == {n \in d.license_records :
                 /\ n.section_type = "new_application"
                 /\ n.license_number = lic_num
                 /\ n.application_type = app_type
                 /\ n.record_date <= out_date + DATE_TOLERANCE_DAYS}
  IN  IF cand = {} THEN NoId
      ELSE (CHOOSE n \in cand : \A p \in cand :
              n.record_date > p.record_date
              \/ (n.record_date = p.record_date /\ n.id >= p.id)).id

RecordById(d, id) == CHOOSE r \in d.license_records : r.id = id

\* the outcome the forward query selects for application na (NoId when none
\* or when the application type is not linkable)
forward_outcome(d, na) ==
  IF na.application_type = _DISC_LINK_TYPE
  THEN best_outcome(d, "discontinued", "DISCONTINUED", na.license_number, na.record_date)
  ELSE IF na.application_type \in _APPROVAL_LINK_TYPES
  THEN best_outcome(d, "approved", na.application_type, na.license_number, na.record_date)
  ELSE NoId

\* the application the backward query selects for outcome o
backward_new_app(d, o) ==
  IF o.section_type = "discontinued" /\ o.application_type = "DISCONTINUED"
  THEN best_new_app(d, _DISC_LINK_TYPE, o.license_number, o.record_date)
  ELSE IF o.section_type = "approved" /\ o.application_type \in _APPROVAL_LINK_TYPES
  THEN best_new_app(d, o.application_type, o.license_number, o.record_date)
  ELSE NoId

\* INSERT OR IGNORE under UNIQUE(new_app_id, outcome_id)
insert_link(d, new_app_id, outcome_id, confidence) ==
  IF \E l \in d.record_links : l.new_app_id = new_app_id /\ l.outcome_id = outcome_id
  THEN d
  ELSE [d EXCEPT !.record_links = @ \cup
          {[new_app_id |-> new_app_id, outcome_id |-> outcome_id,
            confidence |-> confidence,
            days_gap |-> RecordById(d, outcome_id).record_date
                           - RecordById(d, new_app_id).record_date]}]

link_new_app(d, na) ==
  LET outcome_id == forward_outcome(d, na) IN
  IF outcome_id = NoId THEN d
  ELSE insert_link(d, na.id, outcome_id,
         IF backward_new_app(d, RecordById(d, outcome_id)) = na.id
         THEN "high" ELSE "medium")

link_outcome(d, o) ==
  LET new_app_id == backward_new_app(d, o) IN
  IF new_app_id = NoId THEN d
  ELSE insert_link(d, new_app_id, o.id,
         IF forward_outcome(d, RecordById(d, new_app_id)) = o.id
         THEN "high" ELSE "medium")

link_new_record(d, record_id) ==
  LET rec == RecordById(d, record_id) IN
  IF ~\E r \in d.license_records : r.id = record_id THEN d
  ELSE IF rec.section_type = "new_application" THEN link_new_app(d, rec)
  ELSE IF rec.section_type \in OutcomeSections THEN link_outcome(d, rec)
  ELSE d

\* one phase of the bulk linker (_link_approvals or _link_discontinuances):
\* apps are the applications of the phase
link_phase(d, apps) ==
  LET fwd == {na \in apps : forward_outcome(d, na) # NoId}
      mutual(na) == backward_new_app(d, RecordById(d, forward_outcome(d, na))) = na.id
  IN  [d EXCEPT !.record_links = @ \cup
         {[new_app_id |-> na.id, outcome_id |-> forward_outcome(d, na),
           confidence |-> IF mutual(na) THEN "high" ELSE "medium",
           days_gap |-> RecordById(d, forward_outcome(d, na)).record_date - na.record_date] :
            na \in fwd}]

_link_approvals(d) ==
  link_phase(d, {na \in d.license_records :
                   /\ na.section_type = "new_application"
                   /\ na.application_type \in _APPROVAL_LINK_TYPES})

_link_discontinuances(d) ==
  link_phase(d, {na \in d.license_records :
                   /\ na.section_type = "new_application"
                   /\ na.application_type = _DISC_LINK_TYPE})

\* a bulk build that keeps the rows already in record_links
build_all_links_keep(conn) ==
  commit([conn EXCEPT !.db = _link_discontinuances(_link_approvals(conn.db))])

build_all_links(conn) ==
  commit([conn EXCEPT !.db =
     _link_discontinuances(_link_approvals([conn.db EXCEPT !.record_links = {}]))])

(***************************************************************************)
(* Provenance                                                              *)
(***************************************************************************)
SOURCE_TYPE_LIVE_SCRAPE == 1
SOURCE_TYPE_CO_ARCHIVE == 2
SOURCE_TYPE_CO_DIFF_ARCHIVE == 4

NoPath == "<null>"

\* one source per (type, path); with a null path, one per (type, scrape_log_id)
\* a lookup by type and path alone, also when the path is null
get_or_create_source_by_path(d, source_type_id, snapshot_path, scrape_log_id) ==
  LET found == {x \in d.sources :
                  /\ x.source_type_id = source_type_id
                  /\ x.snapshot_path = snapshot_path}
      id == NextId(d, "sources")
  IN  IF found # {} THEN [db |-> d, id |-> (CHOOSE x \in found : TRUE).id]
      ELSE [db |-> [d EXCEPT
                      !.sources = @ \cup {[id |-> id, source_type_id |-> source_type_id,
                                           snapshot_path |-> snapshot_path,
                                           scrape_log_id |-> scrape_log_id]},
                      !.seq.sources = id],
            id |-> id]

get_or_create_source(d, source_type_id, snapshot_path, scrape_log_id) ==
  LET found == {x \in d.sources :
                  /\ x.source_type_id = source_type_id
                  /\ x.snapshot_path = snapshot_path
                  /\ (snapshot_path = NoPath => x.scrape_log_id = scrape_log_id)}
      id == NextId(d, "sources")
  IN  IF found # {} THEN [db |-> d, id |-> (CHOOSE x \in found : TRUE).id]
      ELSE [db |-> [d EXCEPT
                      !.sources = @ \cup {[id |-> id, source_type_id |-> source_type_id,
                                           snapshot_path |-> snapshot_path,
                                           scrape_log_id |-> scrape_log_id]},
                      !.seq.sources = id],
            id |-> id]

\* INSERT OR IGNORE under PRIMARY KEY (record_id, source_id, role)
link_record_source(d, record_id, source_id, role) ==
  [d EXCEPT !.record_sources =
     @ \cup {[record_id |-> record_id, source_id |-> source_id, role |-> role]}]

(***************************************************************************)
(* The unified ingestion pipeline                                          *)
(***************************************************************************)
Steps == {"endorsements", "provenance", "addresses", "links"}

\* the enrichment steps ingest_record runs for a new record under the options
EnabledSteps(options) ==
  {"endorsements"}
    \cup (IF options.source_id # NoId THEN {"provenance"} ELSE {})
    \cup (IF options.validate_addresses THEN {"addresses"} ELSE {})
    \cup (IF options.link_outcomes THEN {"links"} ELSE {})

\* fails: the steps whose call raises.  Every step sits in its own
\* try/except, so a step that raises is logged and the next one still runs.
step_endorsements(d, record_id, record, fails) ==
  IF "endorsements" \in fails THEN d
  ELSE process_record(d, record_id, record.license_type)

\* the provenance step sharing one try block with the steps before it
step_provenance_one_try(d, record_id, options, fails, role) ==
  IF options.source_id = NoId \/ fails # {} THEN d
  ELSE link_record_source(d, record_id, options.source_id, role)

\* the provenance step passing options.source_role whatever the caller's role
step_provenance_source_role(d, record_id, options, fails, role) ==
  IF options.source_id = NoId \/ "provenance" \in fails THEN d
  ELSE link_record_source(d, record_id, options.source_id, options.source_role)

step_provenance(d, record_id, options, fails, role) ==
  IF options.source_id = NoId \/ "provenance" \in fails THEN d
  ELSE link_record_source(d, record_id, options.source_id, role)

\* the call of validate_record lacks its business_location argument: it
\* raises TypeError, which the step logs, and changes nothing
step_addresses(d, record_id, options) == d

step_links(d, record_id, options, fails) ==
  IF ~options.link_outcomes \/ "links" \in fails THEN d
  ELSE link_new_record(d, record_id)

\* the part of ingest_record after insert_record returned ins
ingest_inserted(conn, ins, record, options, fails) ==
  IF ~ins.ok
  THEN [conn |-> [conn EXCEPT !.db = ins.db], ok |-> FALSE,
        record_id |-> NoId, is_new |-> FALSE, attempted |-> {}]
  ELSE IF ins.is_new
  THEN [conn |-> [conn EXCEPT !.db =
          step_links(
            step_addresses(
              step_provenance(
                step_endorsements(ins.db, ins.id, record, fails),
                ins.id, options, fails, options.source_role),
              ins.id, options),
            ins.id, options, fails)],
        ok |-> TRUE, record_id |-> ins.id, is_new |-> TRUE,
        attempted |-> EnabledSteps(options)]
  ELSE [conn |-> [conn EXCEPT !.db =
          step_provenance(ins.db, ins.id, options, fails, "confirmed")],
        ok |-> TRUE, record_id |-> ins.id, is_new |-> FALSE,
        attempted |-> EnabledSteps(options) \cap {"provenance"}]

\* ingest_record committing the bare row before the enrichment steps
ingest_record_commit_first(conn, record, options, fails) ==
  ingest_inserted(commit([conn EXCEPT !.db = insert_record(conn.db, record).db]),
                  insert_record(conn.db, record), record, options, fails)

ingest_record(conn, record, options, fails) ==
  ingest_inserted(conn, insert_record(conn.db, record), record, options, fails)

BATCH_SIZE == 2

\* one iteration of the loop of ingest_batch: record number i (0-based), then
\* the commit at a batch boundary
ingest_batch_step(conn, record, options, fails, i) ==
  LET ir == ingest_record(conn, record, options, fails)
  IN  IF (i + 1) % BATCH_SIZE = 0 THEN commit(ir.conn) ELSE ir.conn

(***************************************************************************)
(* Repair passes of the snapshot backfill                                  *)
(***************************************************************************)
SameDayLicense(r, rec) ==
  /\ r.section_type = rec.section_type
  /\ r.record_date = rec.record_date
  /\ r.license_number = rec.license_number

\* one record of _repair_assumptions
repair_assumption(d, rec, source_id) ==
  LET cleaned_applicants == clean_applicants_string(rec.applicants)
      cleaned_prev_applicants == clean_applicants_string(rec.previous_applicants)
      hit == {r \in d.license_records :
                /\ SameDayLicense(r, rec)
                /\ r.application_type = "ASSUMPTION"
                /\ r.business_name = <<>>}
      fixed == {[r EXCEPT
                   !.business_name = clean_entity_name(rec.business_name),
                   !.applicants = cleaned_applicants,
                   !.previous_business_name = clean_entity_name(rec.previous_business_name),
                   !.previous_applicants = cleaned_prev_applicants] : r \in hit}
      rid == (CHOOSE r \in hit : TRUE).id
      d1 == [d EXCEPT !.license_records = (@ \ hit) \cup fixed,
                      !.record_entities = {x \in @ : x.record_id # rid}]
      e1 == parse_and_link_entities(d1, rid, cleaned_applicants, "applicant")
      e2 == IF cleaned_prev_applicants # <<>>
            THEN parse_and_link_entities(e1, rid, cleaned_prev_applicants,
                                         "previous_applicant")
            ELSE e1
  IN  IF rec.application_type # "ASSUMPTION" THEN d
      ELSE IF rec.business_name = <<>> /\ rec.previous_business_name = <<>> THEN d
      ELSE IF hit = {} THEN d
      ELSE link_record_source(e2, rid, source_id, "repaired")

\* the last UPDATE of _repair_change_of_location: fill a missing previous location
backfill_previous_location(d, rec, prev_loc_id, source_id) ==
  LET hit == {r \in d.license_records :
                /\ SameDayLicense(r, rec)
                /\ r.application_type = "CHANGE OF LOCATION"
                /\ r.previous_location_id = NoId}
      d1 == [d EXCEPT !.license_records =
               (@ \ hit) \cup {[r EXCEPT !.previous_location_id = prev_loc_id] : r \in hit}]
  IN  IF prev_loc_id = NoId \/ hit = {} THEN d
      ELSE link_record_source(d1, (CHOOSE r \in hit : TRUE).id, source_id, "repaired")

\* one record of _repair_change_of_location
repair_change_of_location(d, rec, source_id) ==
  LET loc  == get_or_create_location(d, rec.business_location)
      ploc == get_or_create_location(loc.db, rec.previous_business_location)
      d0   == ploc.db
      existing == \E r \in d0.license_records :
                     SameDayLicense(r, rec) /\ r.application_type = "CHANGE OF LOCATION"
      broken == {r \in d0.license_records :
                   SameDayLicense(r, rec) /\ r.application_type = ""}
      hit == {r \in broken : r.location_id = NoId}
      updated == [d0 EXCEPT !.license_records = (@ \ hit) \cup
                    {[r EXCEPT !.location_id = loc.id,
                               !.previous_location_id = ploc.id,
                               !.application_type = "CHANGE OF LOCATION"] : r \in hit}]
  IN  IF rec.application_type # "CHANGE OF LOCATION" \/ rec.business_location = <<>> THEN d
      ELSE IF existing
      THEN backfill_previous_location(
             delete_records(d0, {r.id : r \in broken}), rec, ploc.id, source_id)
      ELSE IF hit # {}
      THEN link_record_source(updated, (CHOOSE r \in hit : TRUE).id, source_id, "repaired")
      ELSE backfill_previous_location(d0, rec, ploc.id, source_id)

RECURSIVE _repair_assumptions(_, _, _)
_repair_assumptions(d, records, source_id) ==
  IF records = <<>> THEN d
  ELSE _repair_assumptions(repair_assumption(d, Head(records), source_id),
                           Tail(records), source_id)

RECURSIVE _repair_change_of_location(_, _, _)
_repair_change_of_location(d, records, source_id) ==
  IF records = <<>> THEN d
  ELSE _repair_change_of_location(repair_change_of_location(d, Head(records), source_id),
                                  Tail(records), source_id)

\* cursor.rowcount of the UPDATE of _repair_assumptions for one record
repair_assumption_rowcount(d, rec) ==
  IF rec.application_type # "ASSUMPTION" THEN 0
  ELSE IF rec.business_name = <<>> /\ rec.previous_business_name = <<>> THEN 0
  ELSE Cardinality({r \in d.license_records :
                      /\ SameDayLicense(r, rec)
                      /\ r.application_type = "ASSUMPTION"
                      /\ r.business_name = <<>>})

\* the value _repair_assumptions returns: the rowcounts added up
RECURSIVE _repair_assumptions_updated(_, _, _)
_repair_assumptions_updated(d, records, source_id) ==
  IF records = <<>> THEN 0
  ELSE repair_assumption_rowcount(d, Head(records))
       + _repair_assumptions_updated(repair_assumption(d, Head(records), source_id),
                                     Tail(records), source_id)

\* cursor.rowcount of the last UPDATE of _repair_change_of_location
backfill_previous_location_rowcount(d, rec, prev_loc_id) ==
  IF prev_loc_id = NoId THEN 0
  ELSE Cardinality({r \in d.license_records :
                      /\ SameDayLicense(r, rec)
                      /\ r.application_type = "CHANGE OF LOCATION"
                      /\ r.previous_location_id = NoId})

\* what one record adds to the count of _repair_change_of_location; d0 is the
\* store once both locations are resolved
change_of_location_rowcount(d0, rec, prev_loc_id) ==
  IF \E r \in d0.license_records :
        SameDayLicense(r, rec) /\ r.application_type = "CHANGE OF LOCATION"
  THEN backfill_previous_location_rowcount(
         delete_records(d0, {r.id : r \in {x \in d0.license_records :
                                            SameDayLicense(x, rec)
                                            /\ x.application_type = ""}}),
         rec, prev_loc_id)
  ELSE IF \E r \in d0.license_records :
             SameDayLicense(r, rec) /\ r.application_type = "" /\ r.location_id = NoId
  THEN Cardinality({r \in d0.license_records :
                      SameDayLicense(r, rec) /\ r.application_type = ""
                      /\ r.location_id = NoId})
  ELSE backfill_previous_location_rowcount(d0, rec, prev_loc_id)

repair_change_of_location_rowcount(d, rec) ==
  IF rec.application_type # "CHANGE OF LOCATION" \/ rec.business_location = <<>> THEN 0
  ELSE change_of_location_rowcount(
         get_or_create_location(get_or_create_location(d, rec.business_location).db,
                                rec.previous_business_location).db,
         rec,
         get_or_create_location(get_or_create_location(d, rec.business_location).db,
                                rec.previous_business_location).id)

\* the value _repair_change_of_location returns
RECURSIVE _repair_change_of_location_updated(_, _, _)
_repair_change_of_location_updated(d, records, source_id) ==
  IF records = <<>> THEN 0
  ELSE repair_change_of_location_rowcount(d, Head(records))
       + _repair_change_of_location_updated(
           repair_change_of_location(d, Head(records), source_id),
           Tail(records), source_id)

(***************************************************************************)
(* Inputs: parsed records as the parser emits them (every field a string,  *)
(* a non-empty license number)                                             *)
(***************************************************************************)
Rec(section, date, lic, app_type, lic_type, biz, applicants, loc, prev_biz, prev_loc) ==
  [section_type |-> section, record_date |-> date, license_number |-> lic,
   application_type |-> app_type, license_type |-> lic_type,
   business_name |-> biz, applicants |-> applicants, business_location |-> loc,
   previous_business_name |-> prev_biz, previous_applicants |-> <<>>,
   previous_business_location |-> prev_loc, scraped_at |-> 0]

Addr1 == <<"1", "NBSP", "A">>
Addr2 == <<"2", " ", "B">>
NameJoe == <<"J", "o", "e", ".">>
TypeA == <<"A">>
Code7 == <<"7", ",">>

RecApp1 ==
  Rec("new_application", 10, "L1", "RENEWAL", TypeA,
      <<"C", "O", ".">>, <<"C", "O", ".", ";", " ">> \o NameJoe, Addr1, <<>>, <<>>)
\* the same application seen again by a later capture, at another address
RecApp1Moved == [RecApp1 EXCEPT !.business_location = Addr2, !.scraped_at = 1]
RecApproved1 ==
  Rec("approved", 12, "L1", "RENEWAL", Code7, <<"C", "O", ".">>, <<>>, Addr1, <<>>, <<>>)
\* a record whose type and address were lost, and its intact form
RecBroken ==
  Rec("new_application", 11, "L2", "", TypeA, <<"X">>, <<>>, <<>>, <<>>, <<>>)
RecChangeOfLocation ==
  Rec("new_application", 11, "L2", "CHANGE OF LOCATION", TypeA,
      <<"X">>, <<>>, Addr2, <<>>, Addr1)
\* an ASSUMPTION whose new business name is empty
RecAssumption ==
  Rec("new_application", 12, "L3", "ASSUMPTION", TypeA,
      <<>>, <<"Y", ";">> \o NameJoe, Addr1, <<"Y">>, <<>>)

PipelineRecords == {RecApp1, RecApp1Moved, RecApproved1}

MaxCalls == 2

Paths == {"s1", "s2"}

\* the callers of the pipeline: a replay of an archived file (a source, no
\* address validation, no linking) and the live path with or without a source
Callers ==
  {[path |-> p, validate_addresses |-> FALSE, link_outcomes |-> FALSE] : p \in Paths}
  \cup
  {[path |-> p, validate_addresses |-> TRUE, link_outcomes |-> TRUE] :
     p \in {"s1", NoPath}}

\* the caller registers its source, if it has one, and builds the options
caller_options(d, caller) ==
  LET src == IF caller.path = NoPath THEN [db |-> d, id |-> NoId]
             ELSE get_or_create_source(d, SOURCE_TYPE_CO_ARCHIVE, caller.path, NoId)
  IN  [db |-> src.db,
       options |-> [validate_addresses |-> caller.validate_addresses,
                    link_outcomes |-> caller.link_outcomes,
                    source_id |-> src.id, source_role |-> "first_seen"]]

\* the caller's call of ingest_record with the options co it built
call_pipeline(conn, record, co, fails) ==
  [options |-> co.options] @@
  ingest_record([conn EXCEPT !.db = co.db], record, co.options, fails)

\* the failures injected into one call: none, or some steps raising
FailureSets == {{}, {"endorsements"}, {"provenance", "links"}}

NoCall == [op |-> "none"]

Init ==
  /\ db = EmptyDb
  /\ disk = EmptyDb
  /\ last = NoCall
  /\ job = [calls |-> 0]
  /\ fs = {}
  /\ rb = [pc |-> "idle"]

\* one call of ingest_record by one of its callers
Ingest ==
  /\ job.calls < MaxCalls
  /\ \E record \in PipelineRecords, caller \in Callers, fails \in FailureSets :
       LET ir == call_pipeline([db |-> db, disk |-> disk], record,
                               caller_options(db, caller), fails)
       IN  /\ db' = ir.conn.db
           /\ disk' = ir.conn.disk
           /\ last' = [op |-> "ingest", record |-> record, options |-> ir.options,
                       fails |-> fails, ok |-> ir.ok, record_id |-> ir.record_id,
                       is_new |-> ir.is_new, attempted |-> ir.attempted]
  /\ job' = [job EXCEPT !.calls = @ + 1]
  /\ UNCHANGED <<fs, rb>>

\* the caller's conn.commit() between two records
Commit ==
  /\ db # disk
  /\ disk' = db
  /\ UNCHANGED <<db, last, job, fs, rb>>

BuildAllLinks ==
  /\ LET c == build_all_links([db |-> db, disk |-> disk])
     IN  db' = c.db /\ disk' = c.disk
  /\ <<db, disk>>' # <<db, disk>>
  /\ last' = NoCall
  /\ UNCHANGED <<job, fs, rb>>

Next ==
  \/ Ingest
  \/ Commit
  \/ BuildAllLinks

Spec == Init /\ [][Next]_vars

\* the state a second call of ingest_record for the record of the last call
\* leaves, and the state it starts from (the caller's source registered)
second_call(caller, fails) ==
  call_pipeline([db |-> db, disk |-> disk], last.record,
                caller_options(db, caller), fails)

confirmed_row(co, fails) ==
  IF co.options.source_id # NoId /\ "provenance" \notin fails
  THEN {[record_id |-> last.record_id, source_id |-> co.options.source_id,
         role |-> "confirmed"]}
  ELSE {}

\* C1 (as amended): a second ingest_record of the same record returns the
\* same id as a duplicate and leaves the store as the first call left it,
\* but for one 'confirmed' record_sources row for the second call's source
\* whenever that call passes a source -- the source of the first call
\* included; no location row is added.
C1_DuplicateIngest ==
  (last.op = "ingest" /\ last.ok) =>
    \A caller \in Callers, fails \in FailureSets :
       /\ second_call(caller, fails).ok
       /\ ~second_call(caller, fails).is_new
       /\ second_call(caller, fails).record_id = last.record_id
       /\ second_call(caller, fails).conn.db =
            [caller_options(db, caller).db EXCEPT !.record_sources =
               @ \cup confirmed_row(caller_options(db, caller), fails)]

\* C1 as stated: the 'confirmed' row is added only when the second call
\* passes a source different from the first call's
C1_AsStated ==
  (last.op = "ingest" /\ last.ok) =>
    \A caller \in Callers :
       second_call(caller, {}).conn.db =
         [caller_options(db, caller).db EXCEPT !.record_sources =
            @ \cup (IF caller_options(db, caller).options.source_id
                         # last.options.source_id
                    THEN confirmed_row(caller_options(db, caller), {})
                    ELSE {})]

\* a record ingested a second time from the source that first saw it, at
\* another address: one location, and both provenance rows
C1_Witness ==
  /\ last.op = "ingest" /\ last.ok /\ ~last.is_new
  /\ last.record = RecApp1Moved
  /\ Cardinality(db.locations) = 1
  /\ \E x \in db.record_sources :
       /\ x.record_id = last.record_id /\ x.role = "confirmed"
       /\ [x EXCEPT !.role = "first_seen"] \in db.record_sources

\* C6: when enrichment steps raise for a new record, ingest_record still
\* reports it as new, the row stays, every enabled step was attempted, and
\* the steps that did not raise left their results.
C6_ErrorIsolation ==
  (last.op = "ingest" /\ last.ok /\ last.is_new) =>
    /\ \E r \in db.license_records : r.id = last.record_id
    /\ last.attempted = EnabledSteps(last.options)
    /\ ("endorsements" \notin last.fails =>
          \E x \in db.record_endorsements : x.record_id = last.record_id)
    /\ ((last.options.source_id # NoId /\ "provenance" \notin last.fails) =>
          [record_id |-> last.record_id, source_id |-> last.options.source_id,
           role |-> "first_seen"] \in db.record_sources)
    /\ ((last.options.link_outcomes /\ "links" \notin last.fails) =>
          link_new_record(db, last.record_id) = db)

\* the steps whose completion ingest_record is to record for a new record
TrackedSteps(options) ==
  {"endorsements", "entities"}
    \cup (IF options.link_outcomes THEN {"outcome_link"} ELSE {})

\* C14: after ingest_record inserted a new record and no step raised,
\* record_enrichments holds a row of that record for 'endorsements', for
\* 'entities' and, when link_outcomes is on, for 'outcome_link'.
C14_EnrichmentsTracked ==
  (last.op = "ingest" /\ last.ok /\ last.is_new /\ last.fails = {}) =>
    \A step \in TrackedSteps(last.options) :
       \E x \in db.record_enrichments :
          x.record_id = last.record_id /\ x.step = step

\* C15: the raw_* columns of a newly inserted record hold the four name
\* values exactly as they were received, whatever the cleaned columns hold.
C15_RawValuesPreserved ==
  (last.op = "ingest" /\ last.ok /\ last.is_new) =>
    \A r \in db.license_records :
       r.id = last.record_id =>
         /\ r.raw_business_name = last.record.business_name
         /\ r.raw_previous_business_name = last.record.previous_business_name
         /\ r.raw_applicants = last.record.applicants
         /\ r.raw_previous_applicants = last.record.previous_applicants

\* a new record whose endorsement step raised, with its provenance row and
\* its outcome link in place
C6_Witness ==
  /\ last.op = "ingest" /\ last.ok /\ last.is_new
  /\ last.fails = {"endorsements"}
  /\ last.options.validate_addresses
  /\ \E x \in db.record_sources : x.record_id = last.record_id
  /\ \E l \in db.record_links : l.outcome_id = last.record_id
  /\ ~\E x \in db.record_endorsements : x.record_id = last.record_id

\* the rows the ingest of record r itself wrote: its entity and endorsement
\* links, its first_seen provenance, and the links to records older than it
own_rows(d, r) ==
  [entities     |-> {x \in d.record_entities : x.record_id = r.id},
   endorsements |-> {x \in d.record_endorsements : x.record_id = r.id},
   sources      |-> {x \in d.record_sources :
                       x.record_id = r.id /\ x.role = "first_seen"},
   links        |-> {l \in d.record_links :
                       \/ (l.new_app_id = r.id /\ l.outcome_id < r.id)
                       \/ (l.outcome_id = r.id /\ l.new_app_id < r.id)}]

\* C8: a record another connection can see comes with every row its own
\* ingest wrote; no commit falls between the row and its enrichment.
C8_AtomicEnrichment ==
  \A r \in disk.license_records : own_rows(db, r) = own_rows(disk, r)

\* a committed approval with its endorsement, provenance and outcome link
C8_Witness ==
  \E r \in disk.license_records :
     /\ r.section_type = "approved"
     /\ own_rows(disk, r).endorsements # {}
     /\ own_rows(disk, r).sources # {}
     /\ own_rows(disk, r).links # {}

(***************************************************************************)
(* The store under ingests and repair passes                               *)
(***************************************************************************)
StoreRecords == {RecApp1, RecApp1Moved, RecBroken, RecChangeOfLocation, RecAssumption}

StoreIngest ==
  /\ job.calls < MaxCalls
  /\ \E record \in StoreRecords, caller \in Callers, fails \in {{}} :
       db' = call_pipeline([db |-> db, disk |-> disk], record,
                           caller_options(db, caller), fails).conn.db
  /\ job' = [job EXCEPT !.calls = @ + 1]
  /\ UNCHANGED <<disk, last, fs, rb>>

RepairAssumptions ==
  /\ \E record \in StoreRecords, p \in {"s1"} :
       LET src == get_or_create_source(db, SOURCE_TYPE_CO_ARCHIVE, p, NoId)
       IN  /\ db' = _repair_assumptions(src.db, <<record>>, src.id)
           /\ db' # src.db
  /\ UNCHANGED <<disk, last, job, fs, rb>>

RepairChangeOfLocation ==
  /\ \E record \in StoreRecords, p \in {"s1"} :
       LET src == get_or_create_source(db, SOURCE_TYPE_CO_ARCHIVE, p, NoId)
       IN  /\ db' = _repair_change_of_location(src.db, <<record>>, src.id)
           /\ db' # src.db
  /\ UNCHANGED <<disk, last, job, fs, rb>>

StoreNext ==
  \/ StoreIngest
  \/ RepairAssumptions
  \/ RepairChangeOfLocation

SpecStore == Init /\ [][StoreNext]_vars

\* C2: no two rows of license_records agree on section_type, record_date,
\* license_number and application_type.
C2_NaturalKeyUnique ==
  \A r1, r2 \in db.license_records :
     ( /\ r1.section_type = r2.section_type
       /\ r1.record_date = r2.record_date
       /\ r1.license_number = r2.license_number
       /\ r1.application_type = r2.application_type ) => r1 = r2

\* the two repair passes over the records of one snapshot, in the order of
\* the replay
repair_passes(d, records, source_id) ==
  _repair_change_of_location(_repair_assumptions(d, records, source_id),
                             records, source_id)

\* a second run of the two passes over a store they have just been run over
\* reports 0 and 0 and leaves the store as it is
second_run_is_noop(once, records, source_id) ==
  /\ _repair_assumptions_updated(once, records, source_id) = 0
  /\ _repair_change_of_location_updated(
        _repair_assumptions(once, records, source_id), records, source_id) = 0
  /\ repair_passes(once, records, source_id) = once

\* C20: whatever the store holds, once _repair_assumptions and
\* _repair_change_of_location have run over the records of a snapshot, a
\* second run over the same records updates no row: each pass reports 0 and
\* the store is unchanged.
C20_SecondRepairNoOp ==
  \A record \in StoreRecords :
     second_run_is_noop(
       repair_passes(get_or_create_source(db, SOURCE_TYPE_CO_ARCHIVE, "s1", NoId).db,
                     <<record>>,
                     get_or_create_source(db, SOURCE_TYPE_CO_ARCHIVE, "s1", NoId).id),
       <<record>>,
       get_or_create_source(db, SOURCE_TYPE_CO_ARCHIVE, "s1", NoId).id)

\* a broken row repaired into its CHANGE OF LOCATION form and then met again
\* as a duplicate
C2_Witness ==
  \E r \in db.license_records :
     /\ r.application_type = "CHANGE OF LOCATION"
     /\ \E x \in db.record_sources : x.record_id = r.id /\ x.role = "repaired"
     /\ \E x \in db.record_sources : x.record_id = r.id /\ x.role = "confirmed"

(***************************************************************************)
(* The live path: records linked one by one as they arrive, and the bulk   *)
(* relinking run                                                           *)
(***************************************************************************)
LinkRec(section, date, app_type) ==
  Rec(section, date, "L1", app_type, TypeA, <<"X">>, <<>>, <<>>, <<>>, <<>>)

LinkRecords ==
  {LinkRec("new_application", 1, "RENEWAL"),
   LinkRec("new_application", 10, "RENEWAL"),
   LinkRec("new_application", 11, "RENEWAL"),
   LinkRec("approved", 3, "RENEWAL"),
   LinkRec("approved", 12, "RENEWAL"),
   LinkRec("approved", 14, "RENEWAL"),
   LinkRec("new_application", 10, _DISC_LINK_TYPE),
   LinkRec("discontinued", 12, "DISCONTINUED")}

MaxLinkCalls == 4

\* the options of the live scrape: linking on, no source
LiveCaller == [path |-> NoPath, validate_addresses |-> TRUE, link_outcomes |-> TRUE]

LinkIngest ==
  /\ job.calls < MaxLinkCalls
  /\ \E record \in LinkRecords :
       db' = call_pipeline([db |-> db, disk |-> disk], record,
                           caller_options(db, LiveCaller), {}).conn.db
  /\ job' = [job EXCEPT !.calls = @ + 1]
  /\ UNCHANGED <<disk, last, fs, rb>>

LinkBuildAll ==
  /\ LET c == build_all_links([db |-> db, disk |-> disk])
     IN  db' = c.db /\ disk' = c.disk
  /\ <<db, disk>>' # <<db, disk>>
  /\ UNCHANGED <<last, job, fs, rb>>

LinkNext ==
  \/ LinkIngest
  \/ LinkBuildAll

SpecLink == Init /\ [][LinkNext]_vars

\* C3: every 'high' link joins an application and an outcome that are each
\* other's best match on the records now in the store: the outcome is the
\* application's forward best match and the application is the outcome's
\* backward best match.
C3_HighIsMutual ==
  \A l \in db.record_links :
     l.confidence = "high" =>
       /\ forward_outcome(db, RecordById(db, l.new_app_id)) = l.outcome_id
       /\ backward_new_app(db, RecordById(db, l.outcome_id)) = l.new_app_id

\* the signed distance in days from the application of a link to its outcome
LinkGap(l) ==
  RecordById(db, l.outcome_id).record_date - RecordById(db, l.new_app_id).record_date

\* C11: every record_links row, from build_all_links or from link_new_record,
\* joins an application to an outcome dated at most 7 days before it
\* (days_gap >= -7); how long after the application the outcome may be dated
\* is not limited.
C11_GapNotBelowTolerance ==
  \A l \in db.record_links :
     /\ l.days_gap = LinkGap(l)
     /\ l.days_gap >= 0 - DATE_TOLERANCE_DAYS

\* C11 as stated: the absolute days_gap of every link is at most 7
C11_AsStated ==
  \A l \in db.record_links :
     /\ l.days_gap >= 0 - DATE_TOLERANCE_DAYS
     /\ l.days_gap <= DATE_TOLERANCE_DAYS

\* one link reaches back to the edge of the tolerance while another spans
\* more than the tolerance forward
C11_Witness ==
  /\ \E l \in db.record_links : l.days_gap = 0 - DATE_TOLERANCE_DAYS
  /\ \E l \in db.record_links : l.days_gap > DATE_TOLERANCE_DAYS

\* the applications whose forward best match is outcome o
claimants(d, o) ==
  {na \in d.license_records :
     na.section_type = "new_application" /\ forward_outcome(d, na) = o.id}

\* every application competing for an outcome is linked to it exactly once:
\* 'high' for the latest-dated one, 'medium' for the others
competitors_linked(d) ==
  \A o \in {r \in d.license_records : r.section_type \in OutcomeSections} :
     Cardinality(claimants(d, o)) >= 2 =>
       \A na \in claimants(d, o) :
          {l.confidence : l \in {x \in d.record_links :
                                   x.new_app_id = na.id /\ x.outcome_id = o.id}}
            = {IF \A nb \in claimants(d, o) : nb.record_date <= na.record_date
               THEN "high" ELSE "medium"}

\* C12: when several applications have the same outcome as their forward best
\* match, build_all_links links each of them to it, the latest-dated one with
\* confidence 'high' and every other one with 'medium'.
C12_CompetitorsLinked ==
  competitors_linked(build_all_links([db |-> db, disk |-> disk]).db)

\* the bulk linker has just run over a store in which three applications
\* compete for one outcome
C12_Witness ==
  /\ disk = db
  /\ \E o \in db.license_records : Cardinality(claimants(db, o)) >= 3
  /\ competitors_linked(db)

\* the (application, outcome, confidence) rows of record_links
LinkRows(d) ==
  {<<l.new_app_id, l.outcome_id, l.confidence>> : l \in d.record_links}

\* C23: as long as every record was linked by link_new_record at its insert
\* and no bulk build has run, record_links holds the (application, outcome,
\* confidence) rows that build_all_links computes from the same records.
C23_IncrementalEqualsBulk ==
  disk = EmptyDb =>
    LinkRows(db) = LinkRows(build_all_links([db |-> db, disk |-> disk]).db)

\* the record_links rows of application na
RowsOf(d, na) == {l \in d.record_links : l.new_app_id = na.id}

database_get_or_create_entity(d, name) ==
  LET normalized == upper(strip(name))
      found == {e \in d.entities : e.name = normalized}
  IN  IF found # {} THEN [db |-> d, id |-> (CHOOSE e \in found : TRUE).id]
      ELSE [db |-> [d EXCEPT !.entities = @ \cup
                        {[id |-> NextId(d, "entities"), name |-> normalized]},
                      !.seq.entities = @ + 1],
            id |-> NextId(d, "entities")]

RECURSIVE database_link_entities(_, _, _, _, _)
database_link_entities(d, record_id, names, role, position) ==
  IF names = <<>> THEN d
  ELSE LET e == database_get_or_create_entity(d, Head(names))
       IN  database_link_entities(
             [e.db EXCEPT !.record_entities = @ \cup
                {x \in {[record_id |-> record_id, entity_id |-> e.id,
                         role |-> role, position |-> position]} :
                   ~\E y \in e.db.record_entities :
                      /\ y.record_id = record_id
                      /\ y.entity_id = e.id
                      /\ y.role = role}],
             record_id, Tail(names), role, position + 1)

_parse_and_link_entities(d, record_id, applicants_str, role) ==
  IF \A i \in 1..Len(applicants_str) : applicants_str[i] # ";" THEN d
  ELSE LET raw == split(applicants_str, ";")
           parts == [i \in 1..Len(raw) |-> strip(raw[i])]
       IN  database_link_entities(d, record_id,
             SelectSeq(Tail(parts), LAMBDA p : p # <<>>), role, 0)

\* the INSERT of database.insert_record and its entity links
database_insert_row(d, record, location_id, previous_location_id) ==
  _parse_and_link_entities(
    _parse_and_link_entities(
      [d EXCEPT
         !.license_records = @ \cup
           {[id |-> NextId(d, "license_records"),
             section_type |-> record.section_type,
             record_date |-> record.record_date,
             license_number |-> record.license_number,
             application_type |-> record.application_type,
             license_type |-> record.license_type,
             business_name |-> record.business_name,
             applicants |-> record.applicants,
             previous_business_name |-> record.previous_business_name,
             previous_applicants |-> record.previous_applicants,
             location_id |-> location_id,
             previous_location_id |-> previous_location_id,
             scraped_at |-> record.scraped_at,
             raw_business_name |-> SqlNull,
             raw_previous_business_name |-> SqlNull,
             raw_applicants |-> SqlNull,
             raw_previous_applicants |-> SqlNull]},
         !.seq.license_records = @ + 1],
      NextId(d, "license_records"), record.applicants, "applicant"),
    NextId(d, "license_records"), record.previous_applicants, "previous_applicant")

database_insert_located(loc, ploc, record) ==
  [db |-> database_insert_row(ploc.db, record, loc.id, ploc.id),
   id |-> NextId(ploc.db, "license_records")]

database_insert_new(loc, record) ==
  database_insert_located(
    loc, get_or_create_location(loc.db, record.previous_business_location), record)

\* database.insert_record: the new row id, or NoId (None) for a duplicate
database_insert_record(d, record) ==
  IF \E r \in d.license_records : NaturalKey(r) = NaturalKey(record)
  THEN [db |-> d, id |-> NoId]
  ELSE database_insert_new(get_or_create_location(d, record.business_location), record)

\* no snapshot path (None)
NoSnapshot == [day |-> 0, version |-> 0]

\* save_html_snapshot: the file of the first free version of the day
save_html_snapshot(files, html, day) ==
  [day |-> day,
   version |-> CHOOSE v \in 1..(Cardinality(files) + 1) :
                 /\ ~\E f \in files : f.day = day /\ f.version = v
                 /\ \A w \in 1..(v - 1) : \E f \in files : f.day = day /\ f.version = w,
   html |-> html]

\* INSERT INTO scrape_log (started_at, status) VALUES (?, 'running'); commit
scrape_log_start(conn) ==
  commit([conn EXCEPT !.db =
     [conn.db EXCEPT
        !.scrape_log = @ \cup
          {[id |-> NextId(conn.db, "scrape_log"), status |-> "running",
            snapshot_path |-> NoSnapshot, records_new |-> 0, records_skipped |-> 0,
            error_message |-> ""]},
        !.seq.scrape_log = @ + 1]])

\* conn.close() of get_db: what was not committed is gone
close(conn) == [db |-> conn.disk, disk |-> conn.disk]

\* an except branch that swallows the exception without a stamp
scrape_log_error_unstamped(conn, log_id, message, stamp_ok) == close(conn)

\* the except branch of scrape, entered for an Exception: stamp the log
\* 'error' with str(e) and commit.  When the UPDATE or the commit raises
\* (stamp_ok false: the database is locked or cannot be written) that
\* exception leaves scrape instead and the connection is closed.
scrape_log_error(conn, log_id, message, stamp_ok) ==
  IF stamp_ok
  THEN commit([conn EXCEPT !.db.scrape_log =
         {IF l.id = log_id
          THEN [l EXCEPT !.status = "error", !.error_message = message]
          ELSE l : l \in @}])
  ELSE close(conn)

\* the log update of a scrape that got through its records, and the commit
scrape_log_success(conn, log_id, path, inserted, skipped) ==
  commit([conn EXCEPT !.db.scrape_log =
     {IF l.id = log_id
      THEN [l EXCEPT !.status = "success", !.snapshot_path = path,
                     !.records_new = inserted, !.records_skipped = skipped]
      ELSE l : l \in @}])

\* the record loop of scrape.  The call process_record(conn, rid,
\* rec["license_type"], rec["section_type"]) passes four arguments to a
\* function of three: it raises TypeError for the first record that
\* insert_record stores, and the loop ends there.
RECURSIVE scrape_records(_, _, _)
scrape_records(d, records, skipped) ==
  IF records = <<>> THEN [db |-> d, raised |-> FALSE, inserted |-> 0, skipped |-> skipped]
  ELSE IF database_insert_record(d, Head(records)).id = NoId
  THEN scrape_records(d, Tail(records), skipped + 1)
  ELSE [db |-> database_insert_record(d, Head(records)).db, raised |-> TRUE,
        inserted |-> 0, skipped |-> skipped]

\* scrape after its records: the error stamp, or the success stamp and the
\* discovery of code mappings
scrape_loaded(conn, log_id, path, res, stamp_ok) ==
  IF res.raised
  THEN scrape_log_error([conn EXCEPT !.db = res.db], log_id, "TypeError", stamp_ok)
  ELSE discover_code_mappings(
         scrape_log_success([conn EXCEPT !.db = res.db], log_id, path,
                            res.inserted, res.skipped))

\* scrape after the fetch: snapshot, parse, records.  A KeyboardInterrupt
\* or SystemExit raised while httpx.get waits is no Exception: it passes the
\* except branch and only get_db closes the connection.
scrape_fetched(conn, files, log_id, page, file, stamp_ok) ==
  IF page.interrupted THEN [conn |-> close(conn), fs |-> files]
  ELSE IF ~page.fetched
  THEN [conn |-> scrape_log_error(conn, log_id, "HTTPError", stamp_ok), fs |-> files]
  ELSE IF ~page.tables
  THEN [conn |-> scrape_log_error(conn, log_id, "Could not find data tables in page",
                                  stamp_ok),
        fs |-> files \cup file]
  ELSE [conn |-> scrape_loaded(conn, log_id,
                   IF file = {} THEN NoSnapshot
                   ELSE [day |-> (CHOOSE f \in file : TRUE).day,
                         version |-> (CHOOSE f \in file : TRUE).version],
                   scrape_records(conn.db, page.records, 0), stamp_ok),
        fs |-> files \cup file]

scrape_started(conn, files, page, snap_ok, day, stamp_ok) ==
  scrape_fetched(conn, files, conn.db.seq.scrape_log, page,
                 IF snap_ok THEN {save_html_snapshot(files, page.html, day)} ELSE {},
                 stamp_ok)

\* one run of scrape(): what the server sends (page), whether the snapshot
\* could be written (snap_ok), the date of the run (day) and whether the
\* error stamp can be written (stamp_ok) are its inputs
scrape(conn, files, page, snap_ok, day, stamp_ok) ==
  scrape_started(scrape_log_start(seed_endorsements(conn)), files, page, snap_ok, day,
                 stamp_ok)

ScrapeRec1 == LinkRec("new_application", 10, "RENEWAL")
ScrapeRec2 == LinkRec("approved", 12, "RENEWAL")

Page(html, fetched, tables, records) ==
  [html |-> html, fetched |-> fetched, tables |-> tables, records |-> records,
   interrupted |-> FALSE]

\* the run is interrupted from the keyboard while it waits for the server
Interrupted == [Page("", FALSE, FALSE, <<>>) EXCEPT !.interrupted = TRUE]

\* the responses of the server: pages with two, one and no records, a page
\* without the data tables, a failed request, and an interrupted one
Pages ==
  {Page("p2", TRUE, TRUE, <<ScrapeRec1, ScrapeRec2>>),
   Page("p1", TRUE, TRUE, <<ScrapeRec1>>),
   Page("p0", TRUE, TRUE, <<>>),
   Page("px", TRUE, FALSE, <<>>),
   Page("", FALSE, FALSE, <<>>),
   Interrupted}

MaxScrapes == 2
MaxDay == 2

InitScrape ==
  /\ db = EmptyDb
  /\ disk = EmptyDb
  /\ last = NoCall
  /\ job = [calls |-> 0, day |-> 1, history |-> <<>>]
  /\ fs = {}
  /\ rb = [pc |-> "idle"]

\* job.history records, per run, the page fetched, the scrape_log row of the
\* run, and whether the run wrote a file or changed license_records
Scrape ==
  /\ job.calls < MaxScrapes
  /\ \E page \in Pages, snap_ok \in BOOLEAN, day \in {job.day, job.day + 1},
        stamp_ok \in BOOLEAN :
       /\ day <= MaxDay
       \* a failing error stamp matters only to a run that can raise
       /\ stamp_ok \/ (~page.interrupted /\ (~page.fetched \/ ~page.tables
                                               \/ page.records # <<>>))
       /\ LET out == scrape([db |-> db, disk |-> disk], fs, page, snap_ok, day, stamp_ok)
          IN  /\ db' = out.conn.db
              /\ disk' = out.conn.disk
              /\ fs' = out.fs
              /\ job' = [calls |-> job.calls + 1, day |-> day,
                         history |-> Append(job.history,
                            [html |-> page.html, fetched |-> page.fetched,
                             tables |-> page.tables,
                             interrupted |-> page.interrupted,
                             stamp_ok |-> stamp_ok,
                             log_id |-> out.conn.db.seq.scrape_log,
                             wrote |-> out.fs # fs,
                             changed |-> out.conn.db.license_records
                                           # db.license_records])]
  /\ UNCHANGED <<last, rb>>

ScrapeNext == Scrape

SpecScrape == InitScrape /\ [][ScrapeNext]_vars

ScrapeStatus(log_id) == (CHOOSE l \in db.scrape_log : l.id = log_id).status

\* C9: of two consecutive scrapes that fetch the same HTML, the first ends
\* 'success' and the second 'unchanged'; the second writes no snapshot file
\* and changes no record, so exactly one snapshot file of that HTML exists.
C9_SecondScrapeUnchanged ==
  \A i \in 1..(Len(job.history) - 1) :
     ( /\ job.history[i].fetched
       /\ job.history[i + 1].fetched
       /\ job.history[i].html = job.history[i + 1].html )
     => /\ ScrapeStatus(job.history[i].log_id) = "success"
        /\ ScrapeStatus(job.history[i + 1].log_id) = "unchanged"
        /\ ~job.history[i + 1].wrote
        /\ ~job.history[i + 1].changed
        /\ Cardinality({f \in fs : f.html = job.history[i].html}) = 1

\* the scrape_log row a run opened
RunLog(h) == CHOOSE l \in db.scrape_log : l.id = h.log_id

C4_EveryRecordHasSource ==
  \A r \in db.license_records : \E x \in db.record_sources : x.record_id = r.id

(***************************************************************************)
(* Endorsement resolution: records processed one by one, and the seeding,  *)
(* repair and discovery passes                                             *)
(***************************************************************************)
EndorseRec(section, date, lic, lic_type) ==
  Rec(section, date, lic, "RENEWAL", lic_type, <<"X">>, <<>>, <<>>, <<>>, <<>>)

TypeB == <<"B">>
Code8 == <<"8", ",">>
Code8NameB == <<"8", ",", " ", "B">>

\* outcome records carry a code ("8,", "7,") or a code and a name ("8, B");
\* applications carry names separated by semicolons
EndorseRecords ==
  {EndorseRec("approved", 12, "L1", Code8),
   EndorseRec("new_application", 10, "L1", TypeB),
   EndorseRec("approved", 13, "L1", Code8NameB),
   EndorseRec("approved", 12, "L2", Code7),
   EndorseRec("approved", 14, "L2", Code8),
   EndorseRec("new_application", 10, "L2", <<"A", ";", " ", "B">>)}

\* a store written by the earlier releases that kept a "CODE, NAME" value as
\* the name of an endorsement
LegacyDb ==
  [EmptyDb EXCEPT
     !.license_records =
        {[id |-> 1, section_type |-> "approved", record_date |-> 5,
          license_number |-> "L3", application_type |-> "RENEWAL",
          license_type |-> Code8NameB, business_name |-> <<"X">>,
          applicants |-> <<>>, previous_business_name |-> <<>>,
          previous_applicants |-> <<>>, location_id |-> NoId,
          previous_location_id |-> NoId, scraped_at |-> 0,
          raw_business_name |-> SqlNull, raw_previous_business_name |-> SqlNull,
          raw_applicants |-> SqlNull, raw_previous_applicants |-> SqlNull]},
     !.license_endorsements = {[id |-> 1, name |-> Code8NameB]},
     !.record_endorsements = {[record_id |-> 1, endorsement_id |-> 1]},
     !.seq.license_records = 1,
     !.seq.license_endorsements = 1]

MaxEndorseCalls == 4

\* no source, no address validation, no linking: the record and its endorsements
EndorseOptions ==
  [validate_addresses |-> FALSE, link_outcomes |-> FALSE,
   source_id |-> NoId, source_role |-> "first_seen"]

\* the codes whose placeholder endorsement has records linked to it
linked_placeholders(d) ==
  {e.name : e \in {x \in d.license_endorsements :
                     /\ isdigit(x.name)
                     /\ \E l \in d.record_endorsements : l.endorsement_id = x.id}}

InitEndorse ==
  /\ db \in {EmptyDb, LegacyDb}
  /\ disk = db
  /\ last = NoCall
  /\ job = [calls |-> 0]
  /\ fs = {}
  /\ rb = [pc |-> "idle"]

\* insert_record and process_record for one record
ProcessRecord ==
  /\ job.calls < MaxEndorseCalls
  /\ \E record \in EndorseRecords :
       /\ db' = ingest_record([db |-> db, disk |-> disk], record,
                              EndorseOptions, {}).conn.db
       /\ last' = [op |-> "process_record", placeholders |-> linked_placeholders(db)]
  /\ job' = [job EXCEPT !.calls = @ + 1]
  /\ UNCHANGED <<disk, fs, rb>>

SeedEndorsements ==
  /\ LET c == seed_endorsements([db |-> db, disk |-> disk])
     IN  db' = c.db /\ disk' = c.disk
  /\ db' # db
  /\ last' = [op |-> "seed_endorsements", placeholders |-> linked_placeholders(db)]
  /\ UNCHANGED <<job, fs, rb>>

RepairCodeNameEndorsements ==
  /\ LET c == repair_code_name_endorsements([db |-> db, disk |-> disk])
     IN  db' = c.db /\ disk' = c.disk
  /\ db' # db
  /\ last' = [op |-> "repair_code_name_endorsements",
              placeholders |-> linked_placeholders(db)]
  /\ UNCHANGED <<job, fs, rb>>

DiscoverCodeMappings ==
  /\ LET c == discover_code_mappings([db |-> db, disk |-> disk])
     IN  db' = c.db /\ disk' = c.disk
  /\ db' # db
  /\ last' = [op |-> "discover_code_mappings", placeholders |-> linked_placeholders(db)]
  /\ UNCHANGED <<job, fs, rb>>

EndorseNext ==
  \/ ProcessRecord
  \/ SeedEndorsements
  \/ RepairCodeNameEndorsements
  \/ DiscoverCodeMappings

SpecEndorse == InitEndorse /\ [][EndorseNext]_vars

\* the numeric codes mapped to at least one endorsement that is not the
\* placeholder of the code
really_mapped(d) ==
  {m.code : m \in {x \in d.endorsement_codes :
                     /\ isdigit(x.code)
                     /\ EndorsementName(d, x.endorsement_id) # x.code}}

\* C5: when a numeric code is mapped to a non-placeholder endorsement, no
\* record_endorsements row points to the endorsement named after the code.
C5_NoLinkToMappedPlaceholder ==
  \A code \in really_mapped(db) :
     ~\E l \in db.record_endorsements : EndorsementName(db, l.endorsement_id) = code

\* a pass has just given a real mapping to a code whose placeholder had
\* records linked to it
C5_Witness ==
  /\ last.op \in {"seed_endorsements", "discover_code_mappings"}
  /\ last.placeholders \cap really_mapped(db) # {}

\* the code of an outcome record's license type ("8," and "8, B" give "8")
CodeOf(r) == before_comma(r.license_type)

\* the endorsement names a text license type lists
TextNames(r) ==
  {strip(split(r.license_type, ";")[i]) : i \in 1..Len(split(r.license_type, ";"))}
    \ {<<>>}

\* outcome records linked to the placeholder endorsement of their own code,
\* the code having no other mapping
OnPlaceholder(d) ==
  {a \in d.license_records :
     /\ a.section_type \in OutcomeSections
     /\ isdigit(CodeOf(a))
     /\ CodeOf(a) \notin really_mapped(d)
     /\ \E l \in d.record_endorsements :
          l.record_id = a.id /\ EndorsementName(d, l.endorsement_id) = CodeOf(a)}

\* the new_application records with a text license type that share a
\* license number with an outcome record of the code
TextMatches(d, code) ==
  {n \in d.license_records :
     /\ n.section_type = "new_application"
     /\ n.license_type # <<>> /\ Head(n.license_type) \notin Digits
     /\ \E a \in d.license_records :
          /\ a.section_type \in OutcomeSections
          /\ CodeOf(a) = code
          /\ a.license_number = n.license_number}

\* the names every such application lists
CommonNames(d, code) ==
  {t \in UNION {TextNames(n) : n \in TextMatches(d, code)} :
     \A n \in TextMatches(d, code) : t \in TextNames(n)}

\* in d the code maps to exactly the endorsements named `names`, no
\* endorsement is named after the code, and the record is linked to exactly
\* those endorsements
AdoptedFor(d, a, names) ==
  /\ ~\E e \in d.license_endorsements : e.name = CodeOf(a)
  /\ {EndorsementName(d, m.endorsement_id) :
        m \in {x \in d.endorsement_codes : x.code = CodeOf(a)}}
       = {upper(t) : t \in names}
  /\ {EndorsementName(d, l.endorsement_id) :
        l \in {x \in d.record_endorsements : x.record_id = a.id}}
       = {upper(t) : t \in names}

\* C21: discover_code_mappings resolves a placeholder-linked outcome record
\* of an unmapped code to the endorsement names that every new_application
\* of the code's licenses lists: the code is mapped to exactly those names,
\* the record is linked to exactly those endorsements, and the placeholder
\* endorsement and its self-mapping are gone.  When the applications have no
\* name in common the record stays on the placeholder.
C21_DiscoverAdoptsCommonNames ==
  [][DiscoverCodeMappings =>
       \A a \in OnPlaceholder(db) :
          IF CommonNames(db, CodeOf(a)) # {}
            THEN AdoptedFor(db', a, CommonNames(db, CodeOf(a)))
            ELSE a \in OnPlaceholder(db')]_vars

\* as stated: the names of the new_application of the record's own license
\* are adopted
C21_AsStated ==
  [][DiscoverCodeMappings =>
       \A a \in OnPlaceholder(db) :
          \A n \in TextMatches(db, CodeOf(a)) :
             n.license_number = a.license_number
               => AdoptedFor(db', a, TextNames(n))]_vars

\* discover_code_mappings has just moved an outcome record from the
\* placeholder of its code to names learned from applications, and the
\* application of the record's own license lists a name that was not adopted
C21_Witness ==
  /\ last.op = "discover_code_mappings"
  /\ \E a \in db.license_records :
       /\ a.section_type \in OutcomeSections
       /\ CodeOf(a) \in last.placeholders
       /\ CommonNames(db, CodeOf(a)) # {}
       /\ AdoptedFor(db, a, CommonNames(db, CodeOf(a)))
       /\ \E n \in TextMatches(db, CodeOf(a)) :
            /\ n.license_number = a.license_number
            /\ TextNames(n) # CommonNames(db, CodeOf(a))

\* the endorsements record r is linked to in d
LinkedEids(d, r) ==
  {l.endorsement_id : l \in {x \in d.record_endorsements : x.record_id = r.id}}

\* C25: a record whose license_type reads "CODE, NAME" is linked to the
\* code's non-placeholder endorsements when the code has any; otherwise,
\* also when the code is mapped only to its own placeholder, the
\* endorsement NAME exists afterwards, the code is mapped to it and the
\* record is linked to it alone.
C25_CodeNameResolved ==
  [][ProcessRecord =>
       \A r \in db'.license_records \ db.license_records :
          LET m == code_name_re(strip(rstrip_commas(r.license_type)))
              real == mapped_eids(db, m.code, m.code)
          IN  m.ok =>
                IF real # {} THEN LinkedEids(db', r) = real
                ELSE \E e \in db'.license_endorsements :
                       /\ e.name = upper(strip(m.name))
                       /\ [code |-> m.code, endorsement_id |-> e.id]
                            \in db'.endorsement_codes
                       /\ LinkedEids(db', r) = {e.id}]_vars

(***************************************************************************)
(* The snapshot backfill as a job that can be killed and run again         *)
(***************************************************************************)
\* ingest_batch: every record through ingest_record, a commit at each batch
\* boundary and one at the end
RECURSIVE ingest_batch_from(_, _, _, _)
ingest_batch_from(conn, records, options, i) ==
  IF i >= Len(records) THEN commit(conn)
  ELSE ingest_batch_from(ingest_batch_step(conn, records[i + 1], options, {}, i),
                         records, options, i + 1)

ingest_batch(conn, records, options) == ingest_batch_from(conn, records, options, 0)

\* the archived snapshots in chronological order, as the parser reads them
Snapshots ==
  << [path |-> "s1", records |-> <<RecBroken, RecApp1, RecAssumption>>],
     [path |-> "s2", records |-> <<RecChangeOfLocation, RecApp1Moved, RecApproved1>>] >>

\* parse_snapshot: the records of the file, stamped with the time of the parse
parse_snapshot(snap, now) ==
  [i \in 1..Len(snap.records) |-> [snap.records[i] EXCEPT !.scraped_at = now]]

\* the options of the replay of a snapshot registered as source_id
replay_options(source_id) ==
  [validate_addresses |-> FALSE, link_outcomes |-> FALSE,
   source_id |-> source_id, source_role |-> "first_seen"]

\* phase 2 of a snapshot: both repair passes, then the commit
repair_snapshot(conn, records, source_id) ==
  commit([conn EXCEPT !.db =
     _repair_change_of_location(
       _repair_assumptions(conn.db, records, source_id), records, source_id)])

\* one snapshot, its source src already registered
backfill_snapshot(conn, src, records) ==
  repair_snapshot(ingest_batch([conn EXCEPT !.db = src.db], records,
                               replay_options(src.id)),
                  records, src.id)

RECURSIVE backfill_snapshots(_, _, _)
backfill_snapshots(conn, snaps, now) ==
  IF snaps = <<>> THEN conn
  ELSE backfill_snapshots(
         backfill_snapshot(conn,
           get_or_create_source(conn.db, SOURCE_TYPE_CO_ARCHIVE, Head(snaps).path, NoId),
           parse_snapshot(Head(snaps), now)),
         Tail(snaps), now)

\* one uninterrupted run of the backfill at time now
backfill_from_snapshots(conn, now) ==
  discover_code_mappings(
    backfill_snapshots(repair_code_name_endorsements(seed_endorsements(conn)),
                       Snapshots, now))

MaxKills == 2

ReplayJob == [calls |-> 0, pc |-> "start", snap |-> 1, i |-> 0, source_id |-> NoId, run |-> 0]

InitReplay ==
  /\ db = EmptyDb
  /\ disk = EmptyDb
  /\ last = NoCall
  /\ job = ReplayJob
  /\ fs = {}
  /\ rb = [pc |-> "idle"]

\* the records of the snapshot the job is at, as parsed by this run
JobRecords == parse_snapshot(Snapshots[job.snap], job.run)

ReplayStart ==
  /\ job.pc = "start"
  /\ LET c == repair_code_name_endorsements(seed_endorsements([db |-> db, disk |-> disk]))
     IN  db' = c.db /\ disk' = c.disk
  /\ job' = [job EXCEPT !.pc = "source"]
  /\ UNCHANGED <<last, fs, rb>>

ReplaySource ==
  /\ job.pc = "source"
  /\ LET src == get_or_create_source(db, SOURCE_TYPE_CO_ARCHIVE,
                                     Snapshots[job.snap].path, NoId)
     IN  /\ db' = src.db
         /\ job' = [job EXCEPT !.pc = "ingest", !.i = 0, !.source_id = src.id]
  /\ UNCHANGED <<disk, last, fs, rb>>

\* one iteration of ingest_batch; the last one includes the closing commit
ReplayIngest ==
  /\ job.pc = "ingest"
  /\ LET c == ingest_batch_step([db |-> db, disk |-> disk], JobRecords[job.i + 1],
                                replay_options(job.source_id), {}, job.i)
     IN  IF job.i + 1 = Len(JobRecords)
         THEN /\ db' = c.db
              /\ disk' = c.db
              /\ job' = [job EXCEPT !.pc = "repair"]
         ELSE /\ db' = c.db
              /\ disk' = c.disk
              /\ job' = [job EXCEPT !.i = @ + 1]
  /\ UNCHANGED <<last, fs, rb>>

ReplayRepair ==
  /\ job.pc = "repair"
  /\ LET c == repair_snapshot([db |-> db, disk |-> disk], JobRecords, job.source_id)
     IN  db' = c.db /\ disk' = c.disk
  /\ job' = IF job.snap < Len(Snapshots)
            THEN [job EXCEPT !.pc = "source", !.snap = @ + 1]
            ELSE [job EXCEPT !.pc = "discover"]
  /\ UNCHANGED <<last, fs, rb>>

ReplayDiscover ==
  /\ job.pc = "discover"
  /\ LET c == discover_code_mappings([db |-> db, disk |-> disk])
     IN  db' = c.db /\ disk' = c.disk
  /\ job' = [job EXCEPT !.pc = "done"]
  /\ UNCHANGED <<last, fs, rb>>

\* the process is killed: the open transaction is lost, and the job is run
\* again from the start, at a later time
Kill ==
  /\ job.pc \notin {"start", "done"}
  /\ job.run < MaxKills
  /\ db' = disk
  /\ job' = [ReplayJob EXCEPT !.run = job.run + 1]
  /\ UNCHANGED <<disk, last, fs, rb>>

ReplayNext ==
  \/ ReplayStart
  \/ ReplaySource
  \/ ReplayIngest
  \/ ReplayRepair
  \/ ReplayDiscover
  \/ Kill

SpecReplay == InitReplay /\ [][ReplayNext]_vars

\* the store of one uninterrupted run started at time t
UninterruptedRun(t) == backfill_from_snapshots([db |-> EmptyDb, disk |-> EmptyDb], t).db

\* the address behind a location id (<<>> for none)
AddressOf(d, location_id) ==
  IF location_id = NoId THEN <<>>
  ELSE (CHOOSE l \in d.locations : l.id = location_id).raw_address

\* a record without its surrogate ids: its columns, its addresses, and the
\* names of the endorsements and entities linked to it
RecordContent(d, r) ==
  [key |-> NaturalKey(r), license_type |-> r.license_type,
   business_name |-> r.business_name, applicants |-> r.applicants,
   previous_business_name |-> r.previous_business_name,
   previous_applicants |-> r.previous_applicants,
   location |-> AddressOf(d, r.location_id),
   previous_location |-> AddressOf(d, r.previous_location_id),
   endorsements |-> {EndorsementName(d, x.endorsement_id) :
                       x \in {y \in d.record_endorsements : y.record_id = r.id}},
   entities |-> {<<(CHOOSE e \in d.entities : e.id = x.entity_id).name, x.role, x.position>> :
                   x \in {y \in d.record_entities : y.record_id = r.id}}]

\* the store without surrogate ids and without capture times; the row counts
\* tell duplicates apart
Content(d) ==
  [records      |-> {RecordContent(d, r) : r \in d.license_records},
   locations    |-> {l.raw_address : l \in d.locations},
   entities     |-> {e.name : e \in d.entities},
   endorsements |-> {e.name : e \in d.license_endorsements},
   codes        |-> {<<m.code, EndorsementName(d, m.endorsement_id)>> :
                       m \in d.endorsement_codes},
   sources      |-> {<<s.source_type_id, s.snapshot_path>> : s \in d.sources},
   links        |-> {<<NaturalKey(RecordById(d, l.new_app_id)),
                       NaturalKey(RecordById(d, l.outcome_id)), l.confidence>> :
                       l \in d.record_links},
   rows         |-> <<Cardinality(d.license_records), Cardinality(d.locations),
                      Cardinality(d.entities), Cardinality(d.license_endorsements),
                      Cardinality(d.endorsement_codes), Cardinality(d.sources)>>]

\* the capture time stored with every record
CaptureTimes(d) == {<<NaturalKey(r), r.scraped_at>> : r \in d.license_records}

\* record_sources by natural key and snapshot path
Provenance(d) ==
  {[key |-> NaturalKey(RecordById(d, x.record_id)),
    path |-> (CHOOSE s \in d.sources : s.id = x.source_id).snapshot_path,
    role |-> x.role] : x \in d.record_sources}

NoTimestamp == 0 - 1

\* is_valid_record: the minimum fields of a record recovered from a diff
is_valid_record(record) ==
  /\ record.section_type # ""
  /\ record.record_date > 0
  /\ record.license_number # ""
  /\ record.application_type # ""

\* the valid records of a parse, stamped with the time of their diff header
valid_stamped(records, ts) ==
  LET valid == SelectSeq(records, is_valid_record)
  IN  [i \in 1..Len(valid) |-> [valid[i] EXCEPT !.scraped_at = ts]]

\* dict.setdefault over the natural key: the first record of a key wins
RECURSIVE setdefault_all(_, _)
setdefault_all(acc, records) ==
  IF records = <<>> THEN acc
  ELSE IF \A i \in 1..Len(acc) : NaturalKey(acc[i]) # NaturalKey(Head(records))
       THEN setdefault_all(Append(acc, Head(records)), Tail(records))
       ELSE setdefault_all(acc, Tail(records))

\* parse_diff_timestamp: the time of the header, the current time when the
\* header cannot be parsed
parse_diff_timestamp(header, now) == IF header = NoTimestamp THEN now ELSE header

\* the primary pass met a partial record at a hunk boundary
has_incomplete(file) ==
  \E rec \in {file.added[i] : i \in 1..Len(file.added)}
               \cup {file.removed[i] : i \in 1..Len(file.removed)} :
     ~is_valid_record(rec) /\ rec.license_number # ""

\* the primary pass of extract_records_from_diff over the added and the
\* removed lines
primary_pass(file, old_ts, new_ts) ==
  setdefault_all(setdefault_all(<<>>, valid_stamped(file.added, new_ts)),
                 valid_stamped(file.removed, old_ts))

\* the supplemental pass over the lines with context
supplemental_pass(primary, file, old_ts, new_ts) ==
  setdefault_all(setdefault_all(primary, valid_stamped(file.new_ctx, new_ts)),
                 valid_stamped(file.old_ctx, old_ts))

extract_with_timestamps(file, old_ts, new_ts) ==
  IF ~has_incomplete(file) THEN primary_pass(file, old_ts, new_ts)
  ELSE supplemental_pass(primary_pass(file, old_ts, new_ts), file, old_ts, new_ts)

extract_records_from_diff(file, now) ==
  extract_with_timestamps(file, parse_diff_timestamp(file.old_ts, now),
                          parse_diff_timestamp(file.new_ts, now))

\* the first loop of _ingest_diffs: all_records, one record per natural key
RECURSIVE all_diff_records(_, _, _)
all_diff_records(acc, files, now) ==
  IF files = <<>> THEN acc
  ELSE all_diff_records(setdefault_all(acc, extract_records_from_diff(Head(files), now)),
                        Tail(files), now)

\* ts_to_diff_path: the first file that yields a record with this timestamp
ts_to_diff_path(files, now, ts) ==
  files[CHOOSE k \in 1..Len(files) :
          /\ \E i \in 1..Len(extract_records_from_diff(files[k], now)) :
                extract_records_from_diff(files[k], now)[i].scraped_at = ts
          /\ \A j \in 1..(k - 1) :
                \A i \in 1..Len(extract_records_from_diff(files[j], now)) :
                   extract_records_from_diff(files[j], now)[i].scraped_at # ts].path

\* the order of section types as strings
SectionRank(section) ==
  CASE section = "approved" -> 1
    [] section = "discontinued" -> 2
    [] OTHER -> 3

\* sorted(all_records.values(), key=(record_date, section_type)); the sort
\* is stable
RECURSIVE insert_sorted(_, _)
insert_sorted(sorted, r) ==
  IF sorted = <<>> THEN <<r>>
  ELSE IF \/ r.record_date < Head(sorted).record_date
          \/ /\ r.record_date = Head(sorted).record_date
             /\ SectionRank(r.section_type) < SectionRank(Head(sorted).section_type)
       THEN <<r>> \o sorted
       ELSE <<Head(sorted)>> \o insert_sorted(Tail(sorted), r)

RECURSIVE sorted_records(_)
sorted_records(records) ==
  IF records = <<>> THEN <<>>
  ELSE insert_sorted(sorted_records(SubSeq(records, 1, Len(records) - 1)),
                     records[Len(records)])

COMMIT_BATCH == 2

\* one iteration of the insert loop of _ingest_diffs, the source src of the
\* record resolved
ingest_diff_record(conn, src, rec, i) ==
  IF (i + 1) % COMMIT_BATCH = 0
  THEN commit(ingest_record([conn EXCEPT !.db = src.db], rec,
                            replay_options(src.id), {}).conn)
  ELSE ingest_record([conn EXCEPT !.db = src.db], rec, replay_options(src.id), {}).conn

RECURSIVE ingest_diff_records(_, _, _, _, _)
ingest_diff_records(conn, files, now, records, i) ==
  IF i >= Len(records) THEN commit(conn)
  ELSE ingest_diff_records(
         ingest_diff_record(conn,
           get_or_create_source(conn.db, SOURCE_TYPE_CO_DIFF_ARCHIVE,
             ts_to_diff_path(files, now, records[i + 1].scraped_at), NoId),
           records[i + 1], i),
         files, now, records, i + 1)

_ingest_diffs(conn, diff_files, now) ==
  ingest_diff_records(conn, diff_files, now,
                      sorted_records(all_diff_records(<<>>, diff_files, now)), 0)

RECURSIVE _ingest_snapshots(_, _, _)
_ingest_snapshots(conn, snapshots, now) ==
  IF snapshots = <<>> THEN conn
  ELSE _ingest_snapshots(
         ingest_batch(
           [conn EXCEPT !.db = get_or_create_source(conn.db, SOURCE_TYPE_CO_ARCHIVE,
                                                    Head(snapshots).path, NoId).db],
           parse_snapshot(Head(snapshots), now),
           replay_options(get_or_create_source(conn.db, SOURCE_TYPE_CO_ARCHIVE,
                                               Head(snapshots).path, NoId).id)),
         Tail(snapshots), now)

\* phases 3 and 4 of rebuild_from_sources
rebuild_finish(conn) ==
  build_all_links(commit(discover_code_mappings(repair_code_name_endorsements(conn))))

\* the natural key compared with the capture time added
compare_key_with_scraped_at(r) ==
  <<r.section_type, r.record_date, r.license_number, r.application_type, r.scraped_at>>

\* _KEY_QUERY of compare_databases
compare_key(r) ==
  <<r.section_type, r.record_date, r.license_number, r.application_type>>

compare_databases(prod, rebuilt) ==
  [prod_count |-> Cardinality(prod.license_records),
   rebuilt_count |-> Cardinality(rebuilt.license_records),
   missing_from_rebuilt |->
     Cardinality({compare_key(r) : r \in prod.license_records}
                   \ {compare_key(r) : r \in rebuilt.license_records}),
   extra_in_rebuilt |->
     Cardinality({compare_key(r) : r \in rebuilt.license_records}
                   \ {compare_key(r) : r \in prod.license_records})]

DiffFile(path, old_ts, new_ts, added, removed, new_ctx, old_ctx) ==
  [path |-> path, old_ts |-> old_ts, new_ts |-> new_ts, added |-> added,
   removed |-> removed, new_ctx |-> new_ctx, old_ctx |-> old_ctx]

\* a diff with both headers dated
Diff1 == DiffFile("d1", 1, 2, <<RecApp1>>, <<RecApproved1>>, <<>>, <<>>)
\* a diff whose new header cannot be parsed, with a record cut at a hunk
\* boundary that the lines with context complete
Diff2 ==
  DiffFile("d2", 2, NoTimestamp, <<RecApp1Moved, RecBroken>>, <<>>,
           <<RecChangeOfLocation>>, <<>>)

\* a diff whose old header carries the time of the new header of Diff1: the
\* next diff of the same file
Diff3 == DiffFile("d3", 2, 3, <<>>, <<RecAssumption>>, <<>>, <<>>)

\* the data directories: diff files in the order discover_diff_files lists
\* them, and snapshots
Archives ==
  {[diffs |-> d, snapshots |-> s] :
     d \in {<<>>, <<Diff1>>, <<Diff1, Diff2>>, <<Diff2, Diff1>>, <<Diff1, Diff3>>},
     s \in {<<>>, Snapshots, <<Snapshots[2]>>}}

\* the first run starts at FirstRunTime or one later; the second run up to
\* MaxRunGap after the start of the first
FirstRunTime == 5
MaxRunGap == 2

NoComparison ==
  [prod_count |-> 0, rebuilt_count |-> 0, missing_from_rebuilt |-> 0,
   extra_in_rebuilt |-> 0]

InitRebuild ==
  /\ db = EmptyDb
  /\ disk = EmptyDb
  /\ last = NoCall
  /\ job = [calls |-> 0]
  /\ fs = {}
  /\ rb \in {[pc |-> "start", run |-> 1, now |-> 0, archive |-> a,
              first |-> EmptyDb, result |-> NoComparison] : a \in Archives}

\* a fresh output database: init_db, seed_endorsements, commit
RebuildStart ==
  /\ rb.pc = "start"
  /\ \E t \in FirstRunTime..(FirstRunTime + MaxRunGap) :
       /\ IF rb.run = 1 THEN t <= FirstRunTime + 1 ELSE t > rb.now
       /\ rb' = [rb EXCEPT !.pc = "diffs", !.now = t]
  /\ LET c == commit(seed_endorsements([db |-> EmptyDb, disk |-> EmptyDb]))
     IN  db' = c.db /\ disk' = c.disk
  /\ UNCHANGED <<last, job, fs>>

RebuildDiffs ==
  /\ rb.pc = "diffs"
  /\ LET c == _ingest_diffs([db |-> db, disk |-> disk], rb.archive.diffs, rb.now)
     IN  db' = c.db /\ disk' = c.disk
  /\ rb' = [rb EXCEPT !.pc = "snapshots"]
  /\ UNCHANGED <<last, job, fs>>

RebuildSnapshots ==
  /\ rb.pc = "snapshots"
  /\ LET c == _ingest_snapshots([db |-> db, disk |-> disk], rb.archive.snapshots, rb.now)
     IN  db' = c.db /\ disk' = c.disk
  /\ rb' = [rb EXCEPT !.pc = "finish"]
  /\ UNCHANGED <<last, job, fs>>

\* phases 3 and 4; the database of the first run is kept for the comparison
RebuildFinish ==
  /\ rb.pc = "finish"
  /\ LET c == rebuild_finish([db |-> db, disk |-> disk])
     IN  /\ db' = c.db
         /\ disk' = c.disk
         /\ rb' = IF rb.run = 1
                  THEN [rb EXCEPT !.pc = "start", !.run = 2, !.first = c.disk]
                  ELSE [rb EXCEPT !.pc = "compare"]
  /\ UNCHANGED <<last, job, fs>>

CompareDatabases ==
  /\ rb.pc = "compare"
  /\ rb' = [rb EXCEPT !.pc = "done", !.result = compare_databases(rb.first, disk)]
  /\ UNCHANGED <<db, disk, last, job, fs>>

RebuildNext ==
  \/ RebuildStart
  \/ RebuildDiffs
  \/ RebuildSnapshots
  \/ RebuildFinish
  \/ CompareDatabases

SpecRebuild == InitRebuild /\ [][RebuildNext]_vars

\* C10: two rebuilds over the same archive hold the same set of record
\* natural keys, and compare_databases reports 0 missing and 0 extra.
C10_RebuildDeterministic ==
  rb.pc = "done" =>
    /\ {NaturalKey(r) : r \in rb.first.license_records}
         = {NaturalKey(r) : r \in disk.license_records}
    /\ rb.result.missing_from_rebuilt = 0
    /\ rb.result.extra_in_rebuilt = 0

\* two rebuilds of an archive with records have been compared, and their
\* databases are not the same
C10_Witness ==
  /\ rb.pc = "done"
  /\ rb.result.prod_count > 1
  /\ rb.first.license_records # disk.license_records

\* the paths of the diff sources that record_sources names for record r
DiffSourcePaths(d, r) ==
  {s.snapshot_path :
     s \in {y \in d.sources :
              /\ y.source_type_id = SOURCE_TYPE_CO_DIFF_ARCHIVE
              /\ \E x \in d.record_sources :
                    x.record_id = r.id /\ x.source_id = y.id}}

\* the diff file whose extraction put the record into all_records: the first
\* file that yields a record of this natural key
ExtractedFrom(files, now, r) ==
  files[CHOOSE k \in 1..Len(files) :
          /\ \E i \in 1..Len(extract_records_from_diff(files[k], now)) :
                NaturalKey(extract_records_from_diff(files[k], now)[i]) = NaturalKey(r)
          /\ \A j \in 1..(k - 1) :
                \A i \in 1..Len(extract_records_from_diff(files[j], now)) :
                   NaturalKey(extract_records_from_diff(files[j], now)[i])
                     # NaturalKey(r)].path

\* C28: right after the diff phase every record is attributed to exactly
\* one diff source, the diff file the record was extracted from.
C28_AttributedToOwnDiff ==
  rb.pc = "snapshots" =>
    \A r \in db.license_records :
       DiffSourcePaths(db, r) = {ExtractedFrom(rb.archive.diffs, rb.now, r)}

(***************************************************************************)
(* The entity merge pass over a store written by earlier versions          *)
(***************************************************************************)
\* clean_record_strings: the four name columns of every record
clean_record_strings(d) ==
  [d EXCEPT !.license_records =
     {[r EXCEPT !.business_name = clean_entity_name(r.business_name),
                !.previous_business_name = clean_entity_name(r.previous_business_name),
                !.applicants = clean_applicants_string(r.applicants),
                !.previous_applicants = clean_applicants_string(r.previous_applicants)] :
        r \in @}]

\* a merge that leaves the dirty entity and its links in place
merge_into_canonical_skipped(d, dirty_id, canon_id) == d

\* the links of the dirty entity move to the canonical one; where both are
\* linked to a record in a role the lower position is kept; the dirty entity
\* and what is left of its links are deleted
merge_into_canonical(d, dirty_id, canon_id) ==
  [d EXCEPT
     !.record_entities =
        {IF c.entity_id = canon_id
            /\ \E l \in d.record_entities :
                  /\ l.entity_id = dirty_id
                  /\ l.record_id = c.record_id
                  /\ l.role = c.role
                  /\ l.position < c.position
         THEN [c EXCEPT !.position =
                 (CHOOSE l \in d.record_entities :
                    /\ l.entity_id = dirty_id
                    /\ l.record_id = c.record_id
                    /\ l.role = c.role).position]
         ELSE c : c \in {x \in d.record_entities : x.entity_id # dirty_id}}
        \cup
        {[l EXCEPT !.entity_id = canon_id] :
           l \in {x \in d.record_entities :
                    /\ x.entity_id = dirty_id
                    /\ ~\E c \in d.record_entities :
                          /\ c.entity_id = canon_id
                          /\ c.record_id = x.record_id
                          /\ c.role = x.role}},
     !.entities = {e \in @ : e.id # dirty_id}]

\* UPDATE entities SET name = cleaned WHERE id = dirty_id
rename_entity(d, dirty_id, cleaned) ==
  [d EXCEPT !.entities =
     {IF e.id = dirty_id THEN [e EXCEPT !.name = cleaned] ELSE e : e \in @}]

\* one turn of the loop of merge_duplicate_entities
merge_one_entity(d, entity, cleaned) ==
  IF cleaned = entity.name \/ cleaned = <<>> THEN [db |-> d, merged |-> 0]
  ELSE IF \E e \in d.entities : e.name = cleaned
  THEN [db |-> merge_into_canonical(
                 d, entity.id, (CHOOSE e \in d.entities : e.name = cleaned).id),
        merged |-> 1]
  ELSE [db |-> rename_entity(d, entity.id, cleaned), merged |-> 1]

\* the loop over the entities in id order
RECURSIVE merge_entities_loop(_, _)
merge_entities_loop(res, ids) ==
  IF ids = {} THEN res
  ELSE LET id == CHOOSE i \in ids : \A j \in ids : i <= j
           entity == CHOOSE e \in res.db.entities : e.id = id
           one == merge_one_entity(res.db, entity, clean_entity_name(entity.name))
       IN  merge_entities_loop(
             [db |-> one.db, merged |-> res.merged + one.merged], ids \ {id})

merge_duplicate_entities(conn) ==
  LET res == merge_entities_loop(
               [db |-> clean_record_strings(conn.db), merged |-> 0],
               {e.id : e \in conn.db.entities})
  IN  [conn |-> commit([conn EXCEPT !.db = res.db]), merged |-> res.merged]

\* INSERT INTO entities (name) of a name as it is; a taken name is refused
insert_entity_row(d, name) ==
  IF \E e \in d.entities : e.name = name THEN d
  ELSE [d EXCEPT !.entities = @ \cup {[id |-> NextId(d, "entities"), name |-> name]},
                 !.seq.entities = @ + 1]

EntityRec(date, biz, applicants) ==
  Rec("new_application", date, "L1", "RENEWAL", TypeA, biz, applicants, <<>>, <<>>, <<>>)

NameJo == <<"J", "O">>
NameJoDot == <<"J", "O", ".">>
BizB == <<"B">>

\* records as the former insert path stored them: names upper-cased only
EntityRecords ==
  {EntityRec(1, BizB, BizB \o <<";", " ">> \o NameJoDot),
   EntityRec(2, BizB, BizB \o <<";", " ">> \o NameJo \o <<";", " ">> \o NameJoDot),
   EntityRec(3, BizB, BizB \o <<";", " ">> \o NameJoDot \o <<";", " ">> \o NameJo),
   EntityRec(4, <<"b", ".">>, BizB \o <<";", " ", ".">>),
   EntityRec(5, BizB, BizB \o <<";", "J", "O", ",", ".">>),
   EntityRec(6, BizB, BizB \o <<";", " ">> \o NameJo \o <<";", " ">> \o NameJoDot
                          \o <<";", " ", "K">>)}

\* entity names in mixed case, from before names were upper-cased
MixedCaseNames == {<<"J", "o">>, <<"j", "o">>, <<"J", "o", ".">>}

MaxEntityOps == 3

InitEntities ==
  /\ db = EmptyDb
  /\ disk = EmptyDb
  /\ last = NoCall
  /\ job = [calls |-> 0]
  /\ fs = {}
  /\ rb = [pc |-> "none"]

\* a record stored, and its entities linked, by the former insert path
LegacyInsert ==
  /\ job.calls < MaxEntityOps
  /\ \E record \in EntityRecords :
       /\ ~\E r \in db.license_records : NaturalKey(r) = NaturalKey(record)
       /\ db' = database_insert_record(db, record).db
  /\ job' = [job EXCEPT !.calls = @ + 1]
  /\ last' = NoCall
  /\ UNCHANGED <<disk, fs, rb>>

InsertEntityRow ==
  /\ job.calls < MaxEntityOps
  /\ \E name \in MixedCaseNames :
       /\ ~\E e \in db.entities : e.name = name
       /\ db' = insert_entity_row(db, name)
  /\ job' = [job EXCEPT !.calls = @ + 1]
  /\ last' = NoCall
  /\ UNCHANGED <<disk, fs, rb>>

MergeDuplicateEntities ==
  /\ last = NoCall
  /\ LET res == merge_duplicate_entities([db |-> db, disk |-> disk])
     IN  /\ db' = res.conn.db
         /\ disk' = res.conn.disk
         /\ last' = [op |-> "merge_duplicate_entities", merged |-> res.merged]
  /\ UNCHANGED <<job, fs, rb>>

EntitiesNext ==
  \/ LegacyInsert
  \/ InsertEntityRow
  \/ MergeDuplicateEntities

SpecEntities == InitEntities /\ [][EntitiesNext]_vars

NoCaseDuplicates(d) ==
  \A e1 \in d.entities : \A e2 \in d.entities :
     e1.id # e2.id => upper(e1.name) # upper(e2.name)

\* C13: right after merge_duplicate_entities no two entities have names that
\* are equal ignoring case, and every entity name whose cleaned form is not
\* empty equals its cleaned form; an entity whose name cleans to nothing is
\* left as it was.
C13_MergedEntitiesClean ==
  last.op = "merge_duplicate_entities" =>
    /\ NoCaseDuplicates(db)
    /\ \A e \in db.entities :
          clean_entity_name(e.name) \in {e.name, <<>>}
    /\ disk = db

\* C13 as stated: right after the pass every entity name equals its own
\* cleaned form
C13_AsStated ==
  last.op = "merge_duplicate_entities" =>
    /\ NoCaseDuplicates(db)
    /\ \A e \in db.entities : clean_entity_name(e.name) = e.name

\* the pass has merged or renamed two entities and the store holds a clean name
C13_Witness ==
  /\ last.op = "merge_duplicate_entities"
  /\ last.merged >= 2
  /\ \E e \in db.entities : e.name = NameJo

\* the positions of the record_entities rows of a record in a role
PositionsOf(d, record_id, role) ==
  {x.position : x \in {y \in d.record_entities :
                         y.record_id = record_id /\ y.role = role}}

\* C26: for every record and role the positions of its record_entities rows
\* are 0 to n-1, no position missing and none used twice.
C26_PositionsContiguous ==
  \A r \in db.license_records : \A role \in {"applicant", "previous_applicant"} :
     LET rows == {y \in db.record_entities : y.record_id = r.id /\ y.role = role}
     IN  PositionsOf(db, r.id, role) = 0..(Cardinality(rows) - 1)

(***************************************************************************)
(* Schema migrations.  In this part db is the database file as the         *)
(* migration runner sees it: PRAGMA user_version, the tables of            *)
(* sqlite_master, the optional columns, and the license_records rows with  *)
(* the two columns a migration touches.                                    *)
(***************************************************************************)
BaselineTables ==
  {"locations", "license_endorsements", "endorsement_codes", "scrape_log",
   "source_types", "sources", "license_records", "record_endorsements",
   "entities", "record_entities", "record_links", "record_enrichments",
   "record_sources"}

\* a database file nothing was written to
FreshFile ==
  [user_version |-> 0, tables |-> {}, raw_columns |-> FALSE,
   content_hash |-> FALSE, rows |-> {}]

\* CREATE TABLE IF NOT EXISTS for every baseline table: a table that exists
\* keeps its columns, a created one has the columns of the current schema
_m001_baseline(d) ==
  [d EXCEPT
     !.tables = @ \cup BaselineTables,
     !.raw_columns = IF "license_records" \in d.tables THEN @ ELSE TRUE,
     !.content_hash = IF "scrape_log" \in d.tables THEN @ ELSE TRUE]

\* record_enrichments, the raw_* columns where missing, and the backfill of
\* raw_* from the cleaned columns for the rows whose raw_business_name is NULL
\* (license_records exists in every database whose version is 1 or more)
_m002_enrichment_tracking(d) ==
  [d EXCEPT
     !.tables = @ \cup {"record_enrichments"},
     !.raw_columns = TRUE,
     !.rows = {IF ~d.raw_columns \/ r.raw_business_name = SqlNull
               THEN [r EXCEPT !.raw_business_name = r.business_name]
               ELSE r : r \in @}]

\* the content_hash column of scrape_log, where the table exists
_m003_content_hash(d) ==
  IF "scrape_log" \notin d.tables THEN d
  ELSE [d EXCEPT !.content_hash = TRUE]

\* the registry: the versions in the order of the list
MIGRATIONS == <<1, 2, 3>>

run_migration(d, version) ==
  IF version = 1 THEN _m001_baseline(d)
  ELSE IF version = 2 THEN _m002_enrichment_tracking(d)
  ELSE _m003_content_hash(d)

_database_has_tables(d) == "license_records" \in d.tables

_EXISTING_DB_STAMP_VERSION == 1

\* a version bump that is lost
_keep_user_version(d, version) == d

_set_user_version(d, version) == [d EXCEPT !.user_version = version]

\* a runner that treats a populated version-0 database like a fresh one
no_stamp(res) == res

\* the stamp of a database that has its tables but no version yet
stamp_existing(res) ==
  IF res.db.user_version = 0 /\ _database_has_tables(res.db)
  THEN [db |-> _set_user_version(res.db, _EXISTING_DB_STAMP_VERSION),
        ran |-> res.ran \o <<(<<"stamp", _EXISTING_DB_STAMP_VERSION>>)>>]
  ELSE res

\* the loop over the registry; ran lists what was done, in order
RECURSIVE migration_loop(_, _)
migration_loop(res, todo) ==
  IF todo = <<>> THEN res
  ELSE IF Head(todo) > res.db.user_version
  THEN migration_loop(
         [db |-> _set_user_version(run_migration(res.db, Head(todo)), Head(todo)),
          ran |-> res.ran \o <<(<<"run", Head(todo)>>), (<<"bump", Head(todo)>>)>>],
         Tail(todo))
  ELSE migration_loop(res, Tail(todo))

\* migrate as shipped with the first n migrations of the registry
migrate_release(d, n) ==
  migration_loop(stamp_existing([db |-> d, ran |-> <<>>]), SubSeq(MIGRATIONS, 1, n))

migrate(d) == migrate_release(d, Len(MIGRATIONS))

\* the tables of a database written before the migration runner existed:
\* the one table the runner looks for, or all tables of that time
LegacyTableSets ==
  {{"license_records"},
   BaselineTables \ {"record_enrichments"},
   BaselineTables \ {"record_enrichments", "scrape_log"}}

BusinessNames == {<<"X">>, <<"Y">>}

MaxMigrateCalls == 3

InitMigrate ==
  /\ db \in {FreshFile} \cup {[FreshFile EXCEPT !.tables = t] : t \in LegacyTableSets}
  /\ disk = db
  /\ last = NoCall
  /\ job = [calls |-> 0]
  /\ fs = {}
  /\ rb = [pc |-> "none"]

\* the program writes a record: the INSERT of insert_record names no raw_*
\* column
InsertLicenseRow ==
  /\ _database_has_tables(db)
  /\ \E name \in BusinessNames :
       /\ ~\E r \in db.rows : r.business_name = name
       /\ db' = [db EXCEPT !.rows = @ \cup
                   {[business_name |-> name, raw_business_name |-> SqlNull]}]
  /\ disk' = db'
  /\ last' = NoCall
  /\ UNCHANGED <<job, fs, rb>>

\* a start of an earlier release, whose registry ended before the latest
\* migration
MigrateEarlierRelease ==
  /\ job.calls < MaxMigrateCalls
  /\ \E n \in 1..(Len(MIGRATIONS) - 1) :
       /\ db.user_version <= n
       /\ db' = migrate_release(db, n).db
  /\ disk' = db'
  /\ last' = NoCall
  /\ job' = [job EXCEPT !.calls = @ + 1]
  /\ UNCHANGED <<fs, rb>>

Migrate ==
  /\ job.calls < MaxMigrateCalls
  /\ db.user_version <= MIGRATIONS[Len(MIGRATIONS)]
  /\ db' = migrate(db).db
  /\ disk' = db'
  /\ last' = [op |-> "migrate", before |-> db, ran |-> migrate(db).ran]
  /\ job' = [job EXCEPT !.calls = @ + 1]
  /\ UNCHANGED <<fs, rb>>

MigrateNext ==
  \/ InsertLicenseRow
  \/ MigrateEarlierRelease
  \/ Migrate

SpecMigrate == InitMigrate /\ [][MigrateNext]_vars

LatestVersion == MIGRATIONS[Len(MIGRATIONS)]

\* each migration above version from, in ascending order, each followed by
\* its version bump
RECURSIVE RunAbove(_, _)
RunAbove(from, todo) ==
  IF todo = <<>> THEN <<>>
  ELSE (IF Head(todo) > from
        THEN <<(<<"run", Head(todo)>>), (<<"bump", Head(todo)>>)>>
        ELSE <<>>) \o RunAbove(from, Tail(todo))

IsStamped(before) == before.user_version = 0 /\ "license_records" \in before.tables

\* C16: migrate runs exactly the migrations above the version it starts
\* from, ascending, each followed by its bump, and ends at the latest
\* version, where a version-0 database that already has license_records
\* starts from the stamped version 1; a second call right after runs nothing
\* and changes nothing.
C16_MigrateRunsPending ==
  last.op = "migrate" =>
    /\ last.ran =
         IF IsStamped(last.before)
         THEN <<(<<"stamp", 1>>)>> \o RunAbove(1, MIGRATIONS)
         ELSE RunAbove(last.before.user_version, MIGRATIONS)
    /\ db.user_version = LatestVersion
    /\ migrate(db) = [db |-> db, ran |-> <<>>]

\* C16 as stated: from any version the migrations run are exactly those with
\* a higher version
C16_AsStated ==
  last.op = "migrate" =>
    /\ SelectSeq(last.ran, LAMBDA e : e[1] # "stamp")
         = RunAbove(last.before.user_version, MIGRATIONS)
    /\ db.user_version = LatestVersion
    /\ migrate(db) = [db |-> db, ran |-> <<>>]

\* migrate has brought a database that an earlier release left at version 1,
\* with rows written since, to the latest version
C16_Witness ==
  /\ last.op = "migrate"
  /\ last.before.user_version = 1
  /\ last.before.rows # {}
  /\ last.ran = RunAbove(1, MIGRATIONS)
  /\ db.user_version = LatestVersion

\* C17: on a database that has license_records but user_version 0, migrate
\* does not run the baseline migration: it sets the version to 1 and then
\* runs every migration above 1; no table of the baseline is created.
C17_ExistingDatabaseStamped ==
  (last.op = "migrate" /\ IsStamped(last.before)) =>
    /\ last.ran = <<(<<"stamp", 1>>)>> \o RunAbove(1, MIGRATIONS)
    /\ \A i \in 1..Len(last.ran) : last.ran[i] # <<"run", 1>>
    /\ db.tables = last.before.tables \cup {"record_enrichments"}
    /\ db.user_version = LatestVersion

\* migrate has met a version-0 database holding only license_records, with
\* a row in it
C17_Witness ==
  /\ last.op = "migrate"
  /\ last.before.user_version = 0
  /\ last.before.tables = {"license_records"}
  /\ last.before.rows # {}
  /\ "locations" \notin db.tables
  /\ db.raw_columns

(***************************************************************************)
(* ingest_record under every provenance role                               *)
(***************************************************************************)
\* CHECK(role IN ('first_seen', 'confirmed', 'repaired'))
RecordSourceRoles == {"first_seen", "confirmed", "repaired"}

\* a store with the sources of two archived files registered
TwoSourcesDb ==
  get_or_create_source(
    get_or_create_source(EmptyDb, SOURCE_TYPE_CO_ARCHIVE, "s1", NoId).db,
    SOURCE_TYPE_CO_ARCHIVE, "s2", NoId).db

RoleOptions ==
  {[validate_addresses |-> FALSE, link_outcomes |-> FALSE,
    source_id |-> s, source_role |-> r] :
     s \in {NoId} \cup {x.id : x \in TwoSourcesDb.sources}, r \in RecordSourceRoles}

MaxRoleCalls == 2

InitRole ==
  /\ db = TwoSourcesDb
  /\ disk = TwoSourcesDb
  /\ last = NoCall
  /\ job = [calls |-> 0]
  /\ fs = {}
  /\ rb = [pc |-> "none"]

RoleIngest ==
  /\ job.calls < MaxRoleCalls
  /\ \E record \in PipelineRecords, options \in RoleOptions,
        fails \in {{}, {"provenance"}} :
       LET ir == ingest_record([db |-> db, disk |-> disk], record, options, fails)
       IN  /\ db' = ir.conn.db
           /\ disk' = ir.conn.disk
           /\ last' = [op |-> "ingest", options |-> options, fails |-> fails,
                       ok |-> ir.ok, record_id |-> ir.record_id,
                       is_new |-> ir.is_new, before |-> db.record_sources]
  /\ job' = [job EXCEPT !.calls = @ + 1]
  /\ UNCHANGED <<fs, rb>>

RoleCommit ==
  /\ db # disk
  /\ disk' = db
  /\ UNCHANGED <<db, last, job, fs, rb>>

RoleNext ==
  \/ RoleIngest
  \/ RoleCommit

SpecRole == InitRole /\ [][RoleNext]_vars

\* the provenance row of the last call under the given role
RoleRow(role) ==
  [record_id |-> last.record_id, source_id |-> last.options.source_id, role |-> role]

\* C18: given a source_id, ingest_record links a newly inserted record to
\* that source under options.source_role and under no other role, and links
\* a duplicate to that source under 'confirmed', whatever options.source_role
\* is; it writes no other provenance row.
C18_ProvenanceRole ==
  (last.op = "ingest" /\ last.ok /\ last.options.source_id # NoId
     /\ "provenance" \notin last.fails) =>
    db.record_sources =
      last.before \cup {RoleRow(IF last.is_new THEN last.options.source_role
                                ELSE "confirmed")}

\* a duplicate arrived under role 'repaired' and was linked as 'confirmed',
\* next to the row of its first ingest under 'repaired'
C18_Witness ==
  /\ last.op = "ingest" /\ last.ok /\ ~last.is_new
  /\ last.options.source_role = "repaired"
  /\ RoleRow("confirmed") \in db.record_sources
  /\ RoleRow("confirmed") \notin last.before
  /\ RoleRow("repaired") \in last.before

(***************************************************************************)
(* The sources table under repeated registration                           *)
(***************************************************************************)
SourceTypes == {SOURCE_TYPE_LIVE_SCRAPE, SOURCE_TYPE_CO_ARCHIVE}

\* the scrape_log rows a live source may refer to, and none (NULL)
ScrapeLogIds == {NoId, 1, 2}

MaxSourceCalls == 3

InitSource ==
  /\ db = EmptyDb
  /\ disk = EmptyDb
  /\ last = NoCall
  /\ job = [calls |-> 0]
  /\ fs = {}
  /\ rb = [pc |-> "none"]

GetOrCreateSource ==
  /\ job.calls < MaxSourceCalls
  /\ \E t \in SourceTypes, path \in Paths \cup {NoPath}, log_id \in ScrapeLogIds :
       LET res == get_or_create_source(db, t, path, log_id)
       IN  /\ db' = res.db
           /\ last' = [op |-> "get_or_create_source", source_type_id |-> t,
                       snapshot_path |-> path, scrape_log_id |-> log_id,
                       id |-> res.id, before |-> db.sources]
  /\ job' = [job EXCEPT !.calls = @ + 1]
  /\ UNCHANGED <<disk, fs, rb>>

SourceCommit ==
  /\ db # disk
  /\ disk' = db
  /\ UNCHANGED <<db, last, job, fs, rb>>

SourceNext ==
  \/ GetOrCreateSource
  \/ SourceCommit

SpecSource == InitSource /\ [][SourceNext]_vars

\* the key of a sources row: type and path, or type and scrape_log_id when
\* the path is null
SourceKey(x) ==
  IF x.snapshot_path # NoPath
  THEN <<x.source_type_id, x.snapshot_path>>
  ELSE <<x.source_type_id, NoPath, x.scrape_log_id>>

\* C19: the sources table never holds two rows with the same type and the
\* same non-null snapshot_path, nor two with the same type, a null path and
\* the same scrape_log_id; a call whose key is present returns the id of that
\* row and adds nothing, and a call whose key is absent (such as a null path
\* with a scrape_log_id not seen before) returns the id of a new row.
C19_SourceKeyUnique ==
  /\ \A x \in db.sources : \A y \in db.sources :
        SourceKey(x) = SourceKey(y) => x = y
  /\ last.op = "get_or_create_source" =>
       /\ \E x \in db.sources : x.id = last.id /\ SourceKey(x) = SourceKey(last)
       /\ IF \E x \in last.before : SourceKey(x) = SourceKey(last)
          THEN db.sources = last.before
          ELSE /\ ~\E x \in last.before : x.id = last.id
               /\ Cardinality(db.sources) = Cardinality(last.before) + 1

\* two live sources without a snapshot, told apart by their scrape_log_id,
\* and a repeated call that found the first of them
C19_Witness ==
  /\ last.op = "get_or_create_source"
  /\ last.snapshot_path = NoPath
  /\ last.scrape_log_id # NoId
  /\ db.sources = last.before
  /\ \E x \in db.sources :
        /\ x.id # last.id
        /\ x.source_type_id = last.source_type_id
        /\ x.snapshot_path = NoPath
        /\ x.scrape_log_id \notin {NoId, last.scrape_log_id}


(***************************************************************************)
(* Name cleaning applied to arbitrary text                                 *)
(***************************************************************************)
\* a lower-case letter, the letters of the suffix CO., both kinds of
\* whitespace, the two stripped punctuation marks and the separator
CleanChars == {"a", "C", "O", " ", "NBSP", ".", ",", ";"}

MaxCleanLen == 4

RECURSIVE TextsUpTo(_)
TextsUpTo(n) ==
  IF n = 0 THEN {<<>>}
  ELSE TextsUpTo(n - 1) \cup
       {Append(t, c) : t \in {x \in TextsUpTo(n - 1) : Len(x) = n - 1}, c \in CleanChars}

NoResult == [done |-> FALSE, out |-> <<>>]

InitClean ==
  /\ db = EmptyDb
  /\ disk = EmptyDb
  /\ last = [name |-> NoResult, applicants |-> NoResult]
  /\ job \in {[text |-> t] : t \in TextsUpTo(MaxCleanLen)}
  /\ fs = {}
  /\ rb = [pc |-> "idle"]

CleanEntityName ==
  /\ ~last.name.done
  /\ last' = [last EXCEPT !.name = [done |-> TRUE, out |-> clean_entity_name(job.text)]]
  /\ UNCHANGED <<db, disk, job, fs, rb>>

CleanApplicantsString ==
  /\ ~last.applicants.done
  /\ last' = [last EXCEPT !.applicants =
                [done |-> TRUE, out |-> clean_applicants_string(job.text)]]
  /\ UNCHANGED <<db, disk, job, fs, rb>>

CleanNext ==
  \/ CleanEntityName
  \/ CleanApplicantsString

SpecClean == InitClean /\ [][CleanNext]_vars

\* C22: cleaning a cleaned entity name gives the same name, and cleaning a
\* cleaned applicants string gives the same string.
C22_CleanIdempotent ==
  /\ last.name.done => clean_entity_name(last.name.out) = last.name.out
  /\ last.applicants.done =>
       clean_applicants_string(last.applicants.out) = last.applicants.out

\* both cleanings have run on a mixed-case text with whitespace before
\* stray trailing punctuation, and each returned a non-empty text that
\* differs from the upper-cased input
C22_Witness ==
  /\ last.name.done /\ last.applicants.done
  /\ job.text = <<"a", "NBSP", ",", ".">>
  /\ last.name.out = <<"A">>
  /\ last.applicants.out = <<"A">>


(***************************************************************************)
(* ingest_record beside a second writer: another connection commits a      *)
(* record between the duplicate check of insert_record and its first write *)
(***************************************************************************)
\* the other connection stores and commits its record; this connection has
\* no transaction open, so it sees the commit at its next statement
other_writer_commits(conn, other) ==
  commit([conn EXCEPT !.db = insert_record(conn.disk, other).db])

\* insert_record when the other connection commits right after the
\* duplicate check found nothing: the locations are resolved and the INSERT
\* runs against a table that now may hold the natural key
insert_record_after_check(conn, record, other) ==
  insert_new(get_or_create_location(other_writer_commits(conn, other).db,
                                    record.business_location),
             record)

\* ingest_record with the second writer in between
ingest_record_beside(conn, record, other, options) ==
  IF \E r \in conn.db.license_records : NaturalKey(r) = NaturalKey(record)
  THEN ingest_record(conn, record, options, {})
  ELSE ingest_inserted(other_writer_commits(conn, other),
                       insert_record_after_check(conn, record, other),
                       record, options, {})

\* what the two writers are given: the same application captured at two
\* addresses, and an unrelated record
RaceRecords == {RecApp1, RecApp1Moved, RecApproved1}

MaxRaceCalls == 3

\* the live path: no source, so nothing is written before insert_record
RaceOptions == caller_options(EmptyDb, LiveCaller).options

InitRace ==
  /\ db = EmptyDb
  /\ disk = EmptyDb
  /\ last = NoCall
  /\ job = [calls |-> 0]
  /\ fs = {}
  /\ rb = [pc |-> "idle"]

\* ingest_record with no transaction open, the other writer committing
\* between the duplicate check and the first write
IngestBeside ==
  /\ job.calls < MaxRaceCalls
  /\ db = disk
  /\ \E record \in RaceRecords, other \in RaceRecords :
       LET ir == ingest_record_beside([db |-> db, disk |-> disk], record, other,
                                      RaceOptions)
       IN  /\ db' = ir.conn.db
           /\ disk' = ir.conn.disk
           /\ last' = [op |-> "ingest", record |-> record, other |-> other,
                       ok |-> ir.ok,
                       before |-> other_writer_commits([db |-> db, disk |-> disk],
                                                       other).db]
  /\ job' = [job EXCEPT !.calls = @ + 1]
  /\ UNCHANGED <<fs, rb>>

\* ingest_record with nobody else writing
IngestAlone ==
  /\ job.calls < MaxRaceCalls
  /\ \E record \in RaceRecords :
       LET ir == ingest_record([db |-> db, disk |-> disk], record, RaceOptions, {})
       IN  /\ db' = ir.conn.db
           /\ disk' = ir.conn.disk
           /\ last' = [op |-> "ingest", record |-> record, other |-> record,
                       ok |-> ir.ok, before |-> db]
  /\ job' = [job EXCEPT !.calls = @ + 1]
  /\ UNCHANGED <<fs, rb>>

RaceCommit ==
  /\ db # disk
  /\ disk' = db
  /\ UNCHANGED <<db, last, job, fs, rb>>

RaceNext ==
  \/ IngestBeside
  \/ IngestAlone
  \/ RaceCommit

SpecRace == InitRace /\ [][RaceNext]_vars

\* C29: a call of ingest_record whose insert_record failed has added no row
\* to any table: the store is what it was when the call began to write.
C29_FailedInsertLeavesNothing ==
  (last.op = "ingest" /\ ~last.ok) =>
    /\ db.locations = last.before.locations
    /\ db.entities = last.before.entities
    /\ db.license_records = last.before.license_records


(***************************************************************************)
(* migrate stopped part-way.  Each statement of a migration function that  *)
(* changes the schema is durable on its own: executescript runs outside a  *)
(* transaction, and sqlite3 opens no implicit transaction before CREATE,   *)
(* ALTER or PRAGMA.  The UPDATE of the second migration is inside an       *)
(* implicit transaction, which a stop before conn.commit() rolls back.     *)
(***************************************************************************)
\* the CREATE TABLE statements of the baseline script, in the order of the
\* script
BaselineOrder ==
  <<"locations", "license_endorsements", "endorsement_codes", "scrape_log",
    "source_types", "sources", "license_records", "record_endorsements",
    "entities", "record_entities", "record_links", "record_enrichments",
    "record_sources">>

\* the baseline script stopped after its first k CREATE TABLE statements
create_tables(d, k) ==
  LET made == {BaselineOrder[i] : i \in 1..k}
  IN  [d EXCEPT
         !.tables = @ \cup made,
         !.raw_columns =
            IF "license_records" \in made \ d.tables THEN TRUE ELSE @,
         !.content_hash =
            IF "scrape_log" \in made \ d.tables THEN TRUE ELSE @]

\* the number of durable steps of each migration function
StepsOf(version) ==
  IF version = 1 THEN Len(BaselineOrder)
  ELSE IF version = 2 THEN 2
  ELSE 1

\* migration function version stopped after k of its durable steps
partial_migration(d, version, k) ==
  IF version = 1 THEN create_tables(d, k)
  ELSE IF version = 2
  THEN [d EXCEPT
          !.tables = IF k >= 1 THEN @ \cup {"record_enrichments"} ELSE @,
          !.raw_columns = IF k >= 2 THEN TRUE ELSE @]
  ELSE IF k >= 1 THEN _m003_content_hash(d) ELSE d

\* migrate stopped inside the migration version, after k steps of its
\* function and before its version bump: the stamp and the migrations below
\* version are done and committed
killed_migrate(d, version, k) ==
  partial_migration(
    migration_loop(stamp_existing([db |-> d, ran |-> <<>>]),
                   SubSeq(MIGRATIONS, 1, version - 1)).db,
    version, k)

\* the migration a run of migrate on d can be stopped in
Pending(d, version) ==
  version > stamp_existing([db |-> d, ran |-> <<>>]).db.user_version

MaxKillCalls == 3

NoStart == [user_version |-> 0 - 1]

InitKill ==
  /\ db \in {FreshFile} \cup {[FreshFile EXCEPT !.tables = t] : t \in LegacyTableSets}
  /\ disk = db
  /\ last = NoCall
  /\ job = [calls |-> 0, start |-> NoStart]
  /\ fs = {}
  /\ rb = [pc |-> "none"]

\* the program writes a record between two starts
InsertRowBetweenStarts ==
  /\ job.start = NoStart
  /\ _database_has_tables(db)
  /\ \E name \in BusinessNames :
       /\ ~\E r \in db.rows : r.business_name = name
       /\ db' = [db EXCEPT !.rows = @ \cup
                   {[business_name |-> name, raw_business_name |-> SqlNull]}]
  /\ disk' = db'
  /\ last' = NoCall
  /\ UNCHANGED <<job, fs, rb>>

\* a start whose migrate is stopped by the end of the process
MigrateKilled ==
  /\ job.calls < MaxKillCalls
  /\ \E version \in 1..Len(MIGRATIONS) :
       /\ Pending(db, version)
       /\ \E k \in 0..StepsOf(version) :
            /\ db' = killed_migrate(db, version, k)
            /\ last' = [op |-> "killed", before |-> db,
                        version |-> version, done |-> k]
  /\ disk' = db'
  /\ job' = [calls |-> job.calls + 1,
             start |-> IF job.start = NoStart THEN db ELSE job.start]
  /\ UNCHANGED <<fs, rb>>

\* a start whose migrate returns
MigrateToEnd ==
  /\ job.calls < MaxKillCalls
  /\ db.user_version <= MIGRATIONS[Len(MIGRATIONS)]
  /\ db' = migrate(db).db
  /\ disk' = db'
  /\ last' = [op |-> "migrate", before |-> db, ran |-> migrate(db).ran,
              start |-> job.start]
  /\ job' = [calls |-> job.calls + 1, start |-> NoStart]
  /\ UNCHANGED <<fs, rb>>

KillNext ==
  \/ InsertRowBetweenStarts
  \/ MigrateKilled
  \/ MigrateToEnd

SpecKill == InitKill /\ [][KillNext]_vars

\* C30: a migrate call that follows one or more stopped calls ends with the
\* schema and user_version that one uninterrupted call on the database the
\* first stopped call started from ends with.
C30_KilledMigrateRecovers ==
  (last.op = "migrate" /\ last.start # NoStart) =>
    LET whole == migrate(last.start).db
    IN  /\ db.user_version = whole.user_version
        /\ db.tables = whole.tables
        /\ db.raw_columns = whole.raw_columns
        /\ db.content_hash = whole.content_hash
====
